---- MODULE Spec2Model ----
(***************************************************************************)
(* SpadesX: the block-action validator (Source/Server/Block.c) and the     *)
(* plugin pipeline (Source/Server/Plugin.c) as a state machine.            *)
(*                                                                         *)
(* The terrain is the 512 x 512 x 64 volume; the model keeps the columns   *)
(* Columns of it (every z), the rest of the volume is empty. A cell holds  *)
(* Air or the color of its solid block.                                    *)
(***************************************************************************)
EXTENDS Integers, Sequences, FiniteSets, TLC

VARIABLES
    map,         \* server->s_map.map: cell -> Air or the color of the block
    blocks,      \* player->blocks, uint8_t, per player
    grenades,    \* player->grenades, per player
    tool_color,  \* player->tool_color.raw, per player
    pstate,      \* player->state, per player
    blockBuffer, \* player->blockBuffer, per player: the deferred block updates
    outbox,      \* per player: the block-action packets enet_peer_send took for it
    g_plugins,   \* the plugin chain, head first
    g_server,    \* whether plugin_system_init has stored the server reference
    freed,       \* the plugins plugin_unload has freed
    edits,       \* number of accepted edits so far (bounds the exploration)
    pc,          \* "idle": waiting for the next call; "done": a call has returned
    last,        \* what the call that has returned was given, did and returned
    prevBuild,   \* the accepted Build, if the call before was one
    hp,          \* player->hp, uint8_t, per player
    alive,       \* player->alive, per player
    position,    \* player->movement.position, per player
    intel,       \* server->protocol.gamemode.intel, per team
    cmds_map,    \* server->cmds_map: the commands HASH_ADD_STR has been given
    cmds_list,   \* server->cmds_list
    g_plugin_commands, \* the plugin command handlers, in the order of registration
    num_players  \* server->protocol.num_players: the counter of connected players

\* the state the player and server capabilities work on
capVars == <<hp, alive, position, intel, cmds_map, cmds_list, g_plugin_commands, num_players>>

vars == <<map, blocks, grenades, tool_color, pstate, blockBuffer, outbox, g_plugins, g_server, freed, edits, pc, last, prevBuild, capVars>>

----------------------------------------------------------------------------
(* Program constants *)

TOOL_SPADE == 0
TOOL_BLOCK == 1
TOOL_GUN == 2
TOOL_GRENADE == 3

SPADESX_PLUGIN_API_VERSION == 1

PLUGIN_OK == 0
PLUGIN_ALLOW == 1
PLUGIN_DENY == 2
PLUGIN_ERROR == -1
PLUGIN_ERROR_INVALID_PARAM == -2
PLUGIN_ERROR_NULL_POINTER == -3
PLUGIN_ERROR_OUT_OF_RANGE == -4
PLUGIN_ERROR_NOT_FOUND == -5
PLUGIN_ERROR_PERMISSION_DENIED == -6
PLUGIN_ERROR_INVALID_STATE == -7
PLUGIN_ERROR_PLAYER_NOT_FOUND == -100
PLUGIN_ERROR_PLAYER_DEAD == -101
PLUGIN_ERROR_PLAYER_DISCONNECTED == -102
PLUGIN_ERROR_INVALID_TEAM == -103
PLUGIN_ERROR_INVALID_HP == -104
PLUGIN_ERROR_MAP_OUT_OF_BOUNDS == -200
PLUGIN_ERROR_MAP_INVALID_COLOR == -201
PLUGIN_ERROR_MAP_NO_BLOCK == -202
PLUGIN_ERROR_CMD_ALREADY_REGISTERED == -300
PLUGIN_ERROR_CMD_INVALID_NAME == -301
PLUGIN_ERROR_CMD_TOO_MANY == -302

\* the enumerators of plugin_result_t
plugin_result_t ==
    {PLUGIN_OK, PLUGIN_ALLOW, PLUGIN_DENY, PLUGIN_ERROR, PLUGIN_ERROR_INVALID_PARAM,
     PLUGIN_ERROR_NULL_POINTER, PLUGIN_ERROR_OUT_OF_RANGE, PLUGIN_ERROR_NOT_FOUND,
     PLUGIN_ERROR_PERMISSION_DENIED, PLUGIN_ERROR_INVALID_STATE,
     PLUGIN_ERROR_PLAYER_NOT_FOUND, PLUGIN_ERROR_PLAYER_DEAD,
     PLUGIN_ERROR_PLAYER_DISCONNECTED, PLUGIN_ERROR_INVALID_TEAM, PLUGIN_ERROR_INVALID_HP,
     PLUGIN_ERROR_MAP_OUT_OF_BOUNDS, PLUGIN_ERROR_MAP_INVALID_COLOR,
     PLUGIN_ERROR_MAP_NO_BLOCK, PLUGIN_ERROR_CMD_ALREADY_REGISTERED,
     PLUGIN_ERROR_CMD_INVALID_NAME, PLUGIN_ERROR_CMD_TOO_MANY}

MAP_X_MAX == 512
MAP_Y_MAX == 512
MAP_Z_MAX == 64
BedrockZ == 62          \* Block.c: "Z < 62", "z >= 62", "neigh[i].z < 62"
MaxBlocks == 50         \* Block.c: "player->blocks < 50"
MaxDistance == 4        \* Block.c: "distance_in_3d(...) > 4"
RestockGrenades == 3
SERVER_ID == 33
MaxHp == 100            \* Plugin.c: "hp > 100"
COMMAND_NAME_SIZE == 30  \* plugin_command_t: "char command_name[30]"
\* command_t is declared outside these sources; its id field is taken to have
\* the size of the name field plugin_command_t keeps for it
COMMAND_ID_SIZE == COMMAND_NAME_SIZE
MaxPlayerId == 31        \* Plugin.c: "only supports 32 players (IDs 0-31)"

\* uint32_t arithmetic wraps at 2^32. TLC's integers are 32-bit signed and
\* cannot hold 2^32 - 1, so a uint32_t value v is held exactly as the pair
\* <<v \div 2^16, v % 2^16>> of its two 16-bit halves: Z - 1 at Z = 0 is
\* <<65535, 65535>>, that is 65535 * 65536 + 65535 = 4294967295.
UINT16 == 65536
UINT8 == 256

\* the uint32_t an integer converts to: n modulo 2^32
U32(n) == <<(n \div UINT16) % UINT16, n % UINT16>>
\* a + n in uint32_t, for a small integer n
U32Add(a, n) == <<(a[1] + ((a[2] + n) \div UINT16)) % UINT16, (a[2] + n) % UINT16>>
\* a <= b in uint32_t
U32Le(a, b) == a[1] < b[1] \/ (a[1] = b[1] /\ a[2] <= b[2])
\* the int a uint32_t below 2^31 converts to
U32Int(a) == a[1] * UINT16 + a[2]
U8(n) == n % UINT8

----------------------------------------------------------------------------
(* Bounds of the model *)

MaxEdits == 2           \* accepted edits per behaviour
MaxColor == 2           \* colors are 1..MaxColor
MaxChain == 3           \* plugins loaded at a time
MaxDir == 3             \* entries of the plugins directory

Air == 0
Colors == 1..MaxColor
GroundColor == Air + 1
GroundZ == BedrockZ - 2  \* the initial terrain is solid from z = GroundZ to z = 63

Players == {0, 1}
NULL == -1              \* a null player pointer / an absent hook
\* a char pointer: the null pointer, or a pointer to a string
NullPtr == <<>>
Ptr(str) == <<str>>
Tools == {TOOL_SPADE, TOOL_BLOCK, TOOL_GUN, TOOL_GRENADE}
Kinds == {"Build", "DestroyOne", "DestroyThree"}
Columns == {<<0, 0>>}   \* the modelled columns <<x, y>>
Cells == {<<xy[1], xy[2], z>> : xy \in Columns, z \in 0..(MAP_Z_MAX - 1)}

\* targets of the requests: the modelled columns at the heights where the code
\* branches, and a position outside the volume
ZInputs == {0, 1, GroundZ, BedrockZ - 1, BedrockZ, MAP_Z_MAX - 1}
PosInputs == {<<xy[1], xy[2], z>> : xy \in Columns, z \in ZInputs \cup {MAP_Z_MAX}}
DistInputs == {MaxDistance, MaxDistance + 1}

----------------------------------------------------------------------------
(* Voxel store (libmapvxl) and the helpers Block.c calls *)

IsSolid(m, c) == c \in Cells /\ m[c] # Air

mapvxl_set_air(m, c) == IF c \in Cells THEN [m EXCEPT ![c] = Air] ELSE m

mapvxl_set_color(m, c, color) == IF c \in Cells THEN [m EXCEPT ![c] = color] ELSE m

\* outside is what the store gives back for a position that is not one of
\* its cells
mapvxl_get_color(m, c, outside) == IF c \in Cells THEN m[c] ELSE outside

valid_pos_v3i(c) ==
    /\ c[1] >= 0 /\ c[1] < MAP_X_MAX
    /\ c[2] >= 0 /\ c[2] < MAP_Y_MAX
    /\ c[3] >= 0 /\ c[3] < MAP_Z_MAX

get_neighbours(c) ==
    << <<c[1], c[2], c[3] - 1>>, <<c[1], c[2] - 1, c[3]>>, <<c[1], c[2] + 1, c[3]>>,
       <<c[1] - 1, c[2], c[3]>>, <<c[1] + 1, c[2], c[3]>>, <<c[1], c[2], c[3] + 1>> >>

NeighbourSet(c) == {get_neighbours(c)[i] : i \in 1..6}

\* The structural probe (Server/Nodes.c) is described in section 4.2 of the
\* specification: a solid cell above the bedrock boundary holds when a path of
\* solid cells leads from it, within a bounded search radius, to bedrock or to
\* a terrain boundary anchor; a cell that does not hold is vacated and its
\* neighbours are probed in turn.

\* the search radius, in steps from the probed cell; section 4.2 gives no number
ProbeRadius == 4

\* the cells that hold what reaches them: the bedrock layers, among them the
\* floor of the volume, the terrain boundary under every column
Anchored(c) == c[3] >= BedrockZ \/ c[3] = MAP_Z_MAX - 1

\* the solid cells a search from the frontier reaches in up to radius steps
RECURSIVE Component(_, _, _, _)
Component(m, frontier, seen, radius) ==
    IF frontier = {} \/ radius = 0 THEN seen
    ELSE Component(m,
                   {n \in UNION {NeighbourSet(c) : c \in frontier} : IsSolid(m, n)} \ seen,
                   seen \cup {n \in UNION {NeighbourSet(c) : c \in frontier} : IsSolid(m, n)},
                   radius - 1)

\* the probe of c, and the probes of the neighbours neigh[i..6] of a cell the
\* probe has vacated
RECURSIVE check_node(_, _)
RECURSIVE SeedFrom(_, _, _)
check_node(m, c) ==
    IF ~IsSolid(m, c) THEN m
    ELSE IF \E d \in Component(m, {c}, {c}, ProbeRadius) : Anchored(d) THEN m
    ELSE SeedFrom(mapvxl_set_air(m, c), get_neighbours(c), 1)

SeedFrom(m, neigh, i) ==
    IF i > 6 THEN m
    ELSE IF neigh[i][3] < BedrockZ
         THEN SeedFrom(check_node(m, neigh[i]), neigh, i + 1)
         ELSE SeedFrom(m, neigh, i + 1)

is_block_placable(m, c, reserved) == ~reserved /\ ~IsSolid(m, c)

----------------------------------------------------------------------------
(* The plugin chain and its dispatchers (Plugin.c) *)

\* A loaded plugin: its identity and the event handlers dlsym found in it.
\* What a handler does when called is the plugin's business: each call of a
\* handler answers with some beh[id] = [ret, color, moveTo], ret the value
\* returned, color and moveTo what it writes to the arguments it is given.
VetoEvents == {"on_block_destroy", "on_block_place", "on_player_hit", "on_color_change"}
NotifyEvents == {"on_server_init", "on_server_shutdown", "on_tick",
                 "on_player_connect", "on_player_disconnect", "on_grenade_explode"}

\* block_t: the payload of the block events
block_t(pos, color) == [x |-> pos[1], y |-> pos[2], z |-> pos[3], color |-> color]

\* the payload as a handler leaves it: b.color is the color it writes (Air:
\* color left alone), b.moveTo the position it writes (<<>>: left alone)
\* a dispatcher handing every handler a copy of the payload: what a handler
\* writes is lost
HandlerWritesCopy(payload, b) == payload

HandlerWrites(payload, b) ==
    [x |-> IF b.moveTo = <<>> THEN payload.x ELSE b.moveTo[1],
     y |-> IF b.moveTo = <<>> THEN payload.y ELSE b.moveTo[2],
     z |-> IF b.moveTo = <<>> THEN payload.z ELSE b.moveTo[3],
     color |-> IF b.color = Air THEN payload.color ELSE b.color]

\* what the caller's payload holds after a handler of event ev has run.  The
\* block events hand on "block_t* block" and on_color_change hands on
\* "uint32_t* new_color": the handler writes to the caller's value.
\* on_player_hit hands on "uint8_t hit_type, uint8_t weapon" by value: what
\* the handler writes to them stays in the handler.
PayloadAfter(ev, payload, b) ==
    CASE ev \in {"on_block_destroy", "on_block_place"} -> HandlerWrites(payload, b)
      [] ev = "on_color_change" -> IF b.color = Air THEN payload ELSE b.color
      [] ev = "on_player_hit" -> payload

\* a dispatcher that takes every answer other than PLUGIN_ALLOW for a veto
RECURSIVE DispatchDenyUnlessAllow(_, _, _, _, _)
DispatchDenyUnlessAllow(ch, ev, beh, payload, i) ==
    IF i > Len(ch) THEN [result |-> PLUGIN_ALLOW, invoked |-> <<>>, payload |-> payload]
    ELSE IF ev \in ch[i].hooks
         THEN LET b == beh[ch[i].id]
                  pl == PayloadAfter(ev, payload, b)
              IN  IF b.ret # PLUGIN_ALLOW
                  THEN [result |-> PLUGIN_DENY, invoked |-> <<ch[i].id>>, payload |-> pl]
                  ELSE LET r == DispatchDenyUnlessAllow(ch, ev, beh, pl, i + 1)
                       IN  [r EXCEPT !.invoked = <<ch[i].id>> \o r.invoked]
         ELSE DispatchDenyUnlessAllow(ch, ev, beh, payload, i + 1)

RECURSIVE DispatchVetoFrom(_, _, _, _, _)
DispatchVetoFrom(ch, ev, beh, payload, i) ==
    IF i > Len(ch) THEN [result |-> PLUGIN_ALLOW, invoked |-> <<>>, payload |-> payload]
    ELSE IF ev \in ch[i].hooks
         THEN LET b == beh[ch[i].id]
                  pl == PayloadAfter(ev, payload, b)
              IN  IF b.ret = PLUGIN_DENY
                  THEN [result |-> PLUGIN_DENY, invoked |-> <<ch[i].id>>, payload |-> pl]
                  ELSE LET r == DispatchVetoFrom(ch, ev, beh, pl, i + 1)
                       IN  [r EXCEPT !.invoked = <<ch[i].id>> \o r.invoked]
         ELSE DispatchVetoFrom(ch, ev, beh, payload, i + 1)

plugin_dispatch_block_destroy(ch, beh, payload) ==
    DispatchVetoFrom(ch, "on_block_destroy", beh, payload, 1)

plugin_dispatch_block_place(ch, beh, payload) ==
    DispatchVetoFrom(ch, "on_block_place", beh, payload, 1)

\* the payload of on_player_hit: the two values handed on by value
plugin_dispatch_player_hit(ch, beh, hit_type, weapon) ==
    DispatchVetoFrom(ch, "on_player_hit", beh, [hit_type |-> hit_type, weapon |-> weapon], 1)

plugin_dispatch_color_change(ch, beh, new_color) ==
    DispatchVetoFrom(ch, "on_color_change", beh, new_color, 1)

\* a notification loop that leaves after the first handler it has called
RECURSIVE DispatchNotifyFirstOnly(_, _, _)
DispatchNotifyFirstOnly(ch, ev, i) ==
    IF i > Len(ch) THEN <<>>
    ELSE IF ev \in ch[i].hooks THEN <<ch[i].id>>
         ELSE DispatchNotifyFirstOnly(ch, ev, i + 1)

\* the notification loops: every plugin that has the handler is called
RECURSIVE DispatchNotifyFrom(_, _, _)
DispatchNotifyFrom(ch, ev, i) ==
    IF i > Len(ch) THEN <<>>
    ELSE IF ev \in ch[i].hooks
         THEN <<ch[i].id>> \o DispatchNotifyFrom(ch, ev, i + 1)
         ELSE DispatchNotifyFrom(ch, ev, i + 1)

plugin_dispatch_server_init(ch) == DispatchNotifyFrom(ch, "on_server_init", 1)
plugin_dispatch_server_shutdown(ch) == DispatchNotifyFrom(ch, "on_server_shutdown", 1)
plugin_dispatch_player_connect(ch) == DispatchNotifyFrom(ch, "on_player_connect", 1)
plugin_dispatch_player_disconnect(ch) == DispatchNotifyFrom(ch, "on_player_disconnect", 1)
plugin_dispatch_grenade_explode(ch) == DispatchNotifyFrom(ch, "on_grenade_explode", 1)
plugin_dispatch_tick(ch) == DispatchNotifyFrom(ch, "on_tick", 1)

\* plugin_load of a library file: what dlopen, dlsym and calloc find in it and
\* what its init returns. A loaded plugin goes to the head of the chain.
RECURSIVE MaxId(_)
MaxId(ch) == IF ch = <<>> THEN 0
             ELSE LET t == MaxId(Tail(ch)) IN IF ch[1].id > t THEN ch[1].id ELSE t

\* a plugin_load that links the new plugin behind the tail of the chain
plugin_load_at_tail(ch, file) ==
    IF file.opens /\ file.hasInfo /\ file.api_version = SPADESX_PLUGIN_API_VERSION
       /\ file.alloc /\ file.hasInit /\ file.initResult = 0
    THEN [chain |-> ch \o <<[id |-> MaxId(ch) + 1, hooks |-> file.hooks,
                             shutdown |-> file.hasShutdown]>>,
          result |-> 0, initCalled |-> TRUE]
    ELSE [chain |-> ch, result |-> 0 - 1,
          initCalled |-> file.opens /\ file.hasInfo /\ file.alloc /\ file.hasInit
                         /\ file.api_version = SPADESX_PLUGIN_API_VERSION]

\* a plugin_load that does not compare the api_version of the plugin
plugin_load_any_version(ch, file) ==
    IF file.opens /\ file.hasInfo /\ file.alloc /\ file.hasInit
    THEN IF file.initResult = 0
         THEN [chain |-> <<[id |-> MaxId(ch) + 1, hooks |-> file.hooks,
                            shutdown |-> file.hasShutdown]>> \o ch,
               result |-> 0, initCalled |-> TRUE]
         ELSE [chain |-> ch, result |-> 0 - 1, initCalled |-> TRUE]
    ELSE [chain |-> ch, result |-> 0 - 1, initCalled |-> FALSE]

plugin_load(ch, file) ==
    LET fail == [chain |-> ch, result |-> 0 - 1, initCalled |-> FALSE]
    IN  IF ~file.opens THEN fail
        ELSE IF ~file.hasInfo THEN fail
        ELSE IF file.api_version # SPADESX_PLUGIN_API_VERSION THEN fail
        ELSE IF ~file.alloc THEN fail
        ELSE IF ~file.hasInit THEN fail
        ELSE IF file.initResult # 0 THEN [fail EXCEPT !.initCalled = TRUE]
        ELSE [chain |-> <<[id |-> MaxId(ch) + 1, hooks |-> file.hooks,
                           shutdown |-> file.hasShutdown]>> \o ch,
              result |-> 0, initCalled |-> TRUE]

\* a null plugin_t pointer
NoPlugin == [id |-> NULL, hooks |-> {}, shutdown |-> FALSE]

RemoveFirst(ch, id) ==
    LET at == {i \in 1..Len(ch) : ch[i].id = id}
    IN  IF at = {} THEN ch
        ELSE LET k == CHOOSE i \in at : \A j \in at : i <= j
             IN  SubSeq(ch, 1, k - 1) \o SubSeq(ch, k + 1, Len(ch))

\* a plugin_unload that unlinks the plugin without calling its shutdown
plugin_unload_no_shutdown(ch, plugin) ==
    IF plugin = NoPlugin THEN [chain |-> ch, steps |-> <<>>]
    ELSE [chain |-> RemoveFirst(ch, plugin.id),
          steps |-> <<<<"dlclose", plugin.id>>, <<"unlink", plugin.id>>, <<"free", plugin.id>>>>]

\* plugin_unload: the shutdown handler if the plugin has one, DLCLOSE, the
\* plugin taken out of the list, free; steps lists what was done, in order
plugin_unload(ch, plugin) ==
    IF plugin = NoPlugin THEN [chain |-> ch, steps |-> <<>>]
    ELSE [chain |-> RemoveFirst(ch, plugin.id),
          steps |-> (IF plugin.shutdown THEN <<<<"shutdown", plugin.id>>>> ELSE <<>>)
                    \o <<<<"dlclose", plugin.id>>, <<"unlink", plugin.id>>,
                         <<"free", plugin.id>>>>]

\* while (plugin != NULL) { next = plugin->next; plugin_unload(plugin); plugin = next; }
RECURSIVE ShutdownLoop(_, _, _)
ShutdownLoop(ch, todo, steps) ==
    IF todo = <<>> THEN [chain |-> ch, steps |-> steps]
    ELSE LET r == plugin_unload(ch, todo[1])
         IN  ShutdownLoop(r.chain, Tail(todo), steps \o r.steps)

plugin_system_shutdown(ch) ==
    [ShutdownLoop(ch, ch, <<>>) EXCEPT !.chain = <<>>]

\* strlen(filename) > 3 && strcmp(filename + len - 3, ".so") == 0
is_plugin_file(filename) ==
    Len(filename) > 3 /\ SubSeq(filename, Len(filename) - 2, Len(filename)) = <<".", "s", "o">>

\* a scan that gives up at the first plugin that fails to load
RECURSIVE ScanUntilFailure(_, _, _, _)
ScanUntilFailure(ch, dir, i, attempted) ==
    IF i > Len(dir) THEN [chain |-> ch, attempted |-> attempted]
    ELSE IF dir[i].name = <<".">> \/ dir[i].name = <<".", ".">>
         THEN ScanUntilFailure(ch, dir, i + 1, attempted)
         ELSE IF is_plugin_file(dir[i].name)
              THEN LET r == plugin_load(ch, dir[i].file)
                   IN  IF r.result = 0
                       THEN ScanUntilFailure(r.chain, dir, i + 1, Append(attempted, i))
                       ELSE [chain |-> r.chain, attempted |-> Append(attempted, i)]
              ELSE ScanUntilFailure(ch, dir, i + 1, attempted)

\* the readdir loop of plugin_system_init over the entries of the directory
RECURSIVE ScanFrom(_, _, _, _)
ScanFrom(ch, dir, i, attempted) ==
    IF i > Len(dir) THEN [chain |-> ch, attempted |-> attempted]
    ELSE IF dir[i].name = <<".">> \/ dir[i].name = <<".", ".">>
         THEN ScanFrom(ch, dir, i + 1, attempted)
         ELSE IF is_plugin_file(dir[i].name)
              THEN ScanFrom(plugin_load(ch, dir[i].file).chain, dir, i + 1,
                            Append(attempted, i))
              ELSE ScanFrom(ch, dir, i + 1, attempted)

\* dir: whether opendir succeeds, and the entries readdir returns
plugin_system_init(ch, dir) ==
    IF ~dir.opened THEN [chain |-> ch, attempted |-> <<>>]
    ELSE ScanFrom(ch, dir.entries, 1, <<>>)

----------------------------------------------------------------------------
(* Block actions (Block.c) *)

\* The answers of the collaborators of one request, as far as they are asked:
\*   gm, gmUp, gmDown  gamemode_block_checks at Z, Z + 1, Z - 1
\*   delay             block_action_delay_check
\*   weapon            block_action_weapon_checks
\*   reserved          the target holds an objective marker (is_block_placable)
\*   beh               what each plugin's handler does, if called
Rejected(m, b) ==
    [map |-> m, blocks |-> b, accepted |-> FALSE, denied |-> FALSE,
     probed |-> {}, vacated |-> <<>>, sent |-> 0, invoked |-> <<>>, lift |-> {},
     steps |-> <<>>]

\* moveIntelAndTentUp(server), called by every accepted Build. Its body is
\* outside these sources: what it does to server->protocol.gamemode.intel is
\* an answer of the collaborator, lift being the teams whose intel it moves
\* one cell up (z - 1). It can only lift an intel that stands in the cell
\* just built, and none that is at the top of the volume.
IntelAt(it, pos) == {t \in DOMAIN it : it[t] = pos /\ pos[3] > 0}
moveIntelAndTentUp(it, lift) ==
    [t \in DOMAIN it |-> IF t \in lift THEN <<it[t][1], it[t][2], it[t][3] - 1>>
                                         ELSE it[t]]

RECURSIVE ProbeFrom(_, _, _, _)
ProbeFrom(m, neigh, i, probed) ==
    IF i > 6 THEN [map |-> m, probed |-> probed]
    ELSE IF neigh[i][3] < BedrockZ
         THEN ProbeFrom(check_node(m, neigh[i]), neigh, i + 1, probed \cup {neigh[i]})
         ELSE ProbeFrom(m, neigh, i + 1, probed)

\* a build that does not look at the counter before it takes a block from it
block_action_build_unchecked(m, b, ch, color, p, pos, in) ==
    IF ~(in.gm /\ in.delay /\ is_block_placable(m, pos, in.reserved))
    THEN Rejected(m, b)
    ELSE LET d == plugin_dispatch_block_place(ch, in.beh, block_t(pos, color))
         IN  IF d.result = PLUGIN_DENY
             THEN [Rejected(m, b) EXCEPT !.denied = TRUE, !.invoked = d.invoked,
                                         !.steps = <<"dispatch">>]
             ELSE [map |-> mapvxl_set_color(m, pos, d.payload.color),
                   blocks |-> [b EXCEPT ![p] = U8(b[p] - 1 + UINT8)],
                   accepted |-> TRUE, denied |-> FALSE, probed |-> {}, vacated |-> <<>>,
                   sent |-> 1, invoked |-> d.invoked, lift |-> in.lift,
                   steps |-> <<"dispatch", "mutate", "moveIntelAndTentUp", "send">>]

\* a build that places the block without taking one from the counter
block_action_build_free(m, b, ch, color, p, pos, in) ==
    IF ~(in.gm /\ b[p] > 0 /\ in.delay /\ is_block_placable(m, pos, in.reserved))
    THEN Rejected(m, b)
    ELSE LET d == plugin_dispatch_block_place(ch, in.beh, block_t(pos, color))
         IN  IF d.result = PLUGIN_DENY
             THEN [Rejected(m, b) EXCEPT !.denied = TRUE, !.invoked = d.invoked,
                                         !.steps = <<"dispatch">>]
             ELSE [map |-> mapvxl_set_color(m, pos, d.payload.color), blocks |-> b,
                   accepted |-> TRUE, denied |-> FALSE, probed |-> {}, vacated |-> <<>>,
                   sent |-> 1, invoked |-> d.invoked, lift |-> in.lift,
                   steps |-> <<"dispatch", "mutate", "moveIntelAndTentUp", "send">>]

\* a build that asks the plugins before it looks at the request
block_action_build_dispatch_first(m, b, ch, color, p, pos, in) ==
    LET d == plugin_dispatch_block_place(ch, in.beh, block_t(pos, color))
    IN  IF d.result = PLUGIN_DENY
        THEN [Rejected(m, b) EXCEPT !.denied = TRUE, !.invoked = d.invoked,
                                    !.steps = <<"dispatch">>]
        ELSE IF ~(in.gm /\ b[p] > 0 /\ in.delay /\ is_block_placable(m, pos, in.reserved))
        THEN [Rejected(m, b) EXCEPT !.invoked = d.invoked, !.steps = <<"dispatch">>]
        ELSE [map |-> mapvxl_set_color(m, pos, d.payload.color),
              blocks |-> [b EXCEPT ![p] = U8(b[p] - 1)],
              accepted |-> TRUE, denied |-> FALSE, probed |-> {}, vacated |-> <<>>,
              sent |-> 1, invoked |-> d.invoked, lift |-> in.lift,
              steps |-> <<"dispatch", "mutate", "moveIntelAndTentUp", "send">>]

block_action_build(m, b, ch, color, p, pos, in) ==
    IF ~(in.gm /\ b[p] > 0 /\ in.delay /\ is_block_placable(m, pos, in.reserved))
    THEN Rejected(m, b)
    ELSE LET d == plugin_dispatch_block_place(ch, in.beh, block_t(pos, color))
         IN  IF d.result = PLUGIN_DENY
             THEN [Rejected(m, b) EXCEPT !.denied = TRUE, !.invoked = d.invoked,
                                         !.steps = <<"dispatch">>]
             ELSE [map |-> mapvxl_set_color(m, pos, d.payload.color),
                   blocks |-> [b EXCEPT ![p] = U8(b[p] - 1)],
                   accepted |-> TRUE, denied |-> FALSE, probed |-> {}, vacated |-> <<>>,
                   sent |-> 1, invoked |-> d.invoked, lift |-> in.lift,
                   steps |-> <<"dispatch", "mutate", "moveIntelAndTentUp", "send">>]

\* a destroy that pays the block back whatever the tool
block_action_destroy_one_gun_income(m, b, ch, p, pos, tool, in) ==
    IF ~((pos[3] < BedrockZ /\ in.gm)
           /\ ((tool = TOOL_SPADE /\ in.delay) \/ (tool = TOOL_GUN /\ in.weapon)))
    THEN Rejected(m, b)
    ELSE LET d == plugin_dispatch_block_destroy(ch, in.beh, block_t(pos, mapvxl_get_color(m, pos, Air)))
         IN  IF d.result = PLUGIN_DENY
             THEN [Rejected(m, b) EXCEPT !.denied = TRUE, !.invoked = d.invoked,
                                         !.steps = <<"dispatch">>]
             ELSE LET r == ProbeFrom(mapvxl_set_air(m, pos), get_neighbours(pos), 1, {})
                  IN  [map |-> r.map,
                       blocks |-> IF b[p] < MaxBlocks
                                  THEN [b EXCEPT ![p] = U8(b[p] + 1)] ELSE b,
                       accepted |-> TRUE, denied |-> FALSE, probed |-> r.probed,
                       vacated |-> <<pos>>, sent |-> 1, invoked |-> d.invoked, lift |-> {},
                       steps |-> <<"dispatch", "mutate", "probe", "send">>]

\* a destroy that pays the block back without looking at the cap
block_action_destroy_one_uncapped(m, b, ch, p, pos, tool, in) ==
    IF ~((pos[3] < BedrockZ /\ in.gm)
           /\ ((tool = TOOL_SPADE /\ in.delay) \/ (tool = TOOL_GUN /\ in.weapon)))
    THEN Rejected(m, b)
    ELSE LET d == plugin_dispatch_block_destroy(ch, in.beh, block_t(pos, mapvxl_get_color(m, pos, Air)))
         IN  IF d.result = PLUGIN_DENY
             THEN [Rejected(m, b) EXCEPT !.denied = TRUE, !.invoked = d.invoked,
                                         !.steps = <<"dispatch">>]
             ELSE LET r == ProbeFrom(mapvxl_set_air(m, pos), get_neighbours(pos), 1, {})
                  IN  [map |-> r.map,
                       blocks |-> IF tool # TOOL_GUN
                                  THEN [b EXCEPT ![p] = U8(b[p] + 1)] ELSE b,
                       accepted |-> TRUE, denied |-> FALSE, probed |-> r.probed,
                       vacated |-> <<pos>>, sent |-> 1, invoked |-> d.invoked, lift |-> {},
                       steps |-> <<"dispatch", "mutate", "probe", "send">>]

\* a destroy that pays a block to every player
block_action_destroy_one_pays_all(m, b, ch, p, pos, tool, in) ==
    IF ~((pos[3] < BedrockZ /\ in.gm)
           /\ ((tool = TOOL_SPADE /\ in.delay) \/ (tool = TOOL_GUN /\ in.weapon)))
    THEN Rejected(m, b)
    ELSE LET d == plugin_dispatch_block_destroy(ch, in.beh, block_t(pos, mapvxl_get_color(m, pos, Air)))
         IN  IF d.result = PLUGIN_DENY
             THEN [Rejected(m, b) EXCEPT !.denied = TRUE, !.invoked = d.invoked,
                                         !.steps = <<"dispatch">>]
             ELSE LET r == ProbeFrom(mapvxl_set_air(m, pos), get_neighbours(pos), 1, {})
                  IN  [map |-> r.map,
                       blocks |-> IF tool # TOOL_GUN
                                  THEN [q \in DOMAIN b |->
                                          IF b[q] < MaxBlocks THEN U8(b[q] + 1) ELSE b[q]]
                                  ELSE b,
                       accepted |-> TRUE, denied |-> FALSE, probed |-> r.probed,
                       vacated |-> <<pos>>, sent |-> 1, invoked |-> d.invoked, lift |-> {},
                       steps |-> <<"dispatch", "mutate", "probe", "send">>]

block_action_destroy_one(m, b, ch, p, pos, tool, in) ==
    IF ~((pos[3] < BedrockZ /\ in.gm)
           /\ ((tool = TOOL_SPADE /\ in.delay) \/ (tool = TOOL_GUN /\ in.weapon)))
    THEN Rejected(m, b)
    ELSE LET d == plugin_dispatch_block_destroy(ch, in.beh, block_t(pos, mapvxl_get_color(m, pos, Air)))
         IN  IF d.result = PLUGIN_DENY
             THEN [Rejected(m, b) EXCEPT !.denied = TRUE, !.invoked = d.invoked,
                                         !.steps = <<"dispatch">>]
             ELSE LET r == ProbeFrom(mapvxl_set_air(m, pos), get_neighbours(pos), 1, {})
                  IN  [map |-> r.map,
                       blocks |-> IF tool # TOOL_GUN /\ b[p] < MaxBlocks
                                  THEN [b EXCEPT ![p] = U8(b[p] + 1)] ELSE b,
                       accepted |-> TRUE, denied |-> FALSE, probed |-> r.probed,
                       vacated |-> <<pos>>, sent |-> 1, invoked |-> d.invoked, lift |-> {},
                       steps |-> <<"dispatch", "mutate", "probe", "send">>]

\* a column loop that skips only the cells outside the volume
RECURSIVE ColumnLoopToBottom(_, _, _, _, _, _, _)
ColumnLoopToBottom(m, X, Y, z, hi, probed, vacated) ==
    IF ~U32Le(z, hi) THEN [map |-> m, probed |-> probed, vacated |-> vacated]
    ELSE IF U32Le(U32(MAP_Z_MAX), z)
         THEN ColumnLoopToBottom(m, X, Y, U32Add(z, 1), hi, probed, vacated)
         ELSE LET pos == <<X, Y, U32Int(z)>>
                  r == ProbeFrom(mapvxl_set_air(m, pos), get_neighbours(pos), 1, probed)
              IN  ColumnLoopToBottom(r.map, X, Y, U32Add(z, 1), hi, r.probed, Append(vacated, pos))

\* for (uint32_t z = Z - 1; z <= Z + 1; z++)
RECURSIVE ColumnLoop(_, _, _, _, _, _, _)
ColumnLoop(m, X, Y, z, hi, probed, vacated) ==
    IF ~U32Le(z, hi) THEN [map |-> m, probed |-> probed, vacated |-> vacated]
    ELSE IF U32Le(U32(BedrockZ), z)
         THEN ColumnLoop(m, X, Y, U32Add(z, 1), hi, probed, vacated)
         ELSE LET pos == <<X, Y, U32Int(z)>>
                  r == ProbeFrom(mapvxl_set_air(m, pos), get_neighbours(pos), 1, probed)
              IN  ColumnLoop(r.map, X, Y, U32Add(z, 1), hi, r.probed, Append(vacated, pos))

\* the steps of the column loop: each cell is set to air, then its
\* neighbours are probed
ColumnSteps(vacated) ==
    [k \in 1..(2 * Len(vacated)) |-> IF k % 2 = 1 THEN "mutate" ELSE "probe"]

\* a column destroy that dispatches the event and goes on whatever the answer
block_action_destroy_three_unvetoed(m, b, ch, p, pos, tool, in) ==
    IF ~(in.gm /\ in.gmUp /\ in.gmDown /\ in.delay) \/ tool = TOOL_GUN
    THEN Rejected(m, b)
    ELSE LET d == plugin_dispatch_block_destroy(ch, in.beh, block_t(pos, mapvxl_get_color(m, pos, Air)))
             r == ColumnLoop(m, pos[1], pos[2], U32(pos[3] - 1), U32(pos[3] + 1), {}, <<>>)
         IN  [map |-> r.map, blocks |-> b,
              accepted |-> TRUE, denied |-> d.result = PLUGIN_DENY, probed |-> r.probed,
              vacated |-> r.vacated, sent |-> 1, invoked |-> d.invoked, lift |-> {},
              steps |-> <<"dispatch">> \o ColumnSteps(r.vacated) \o <<"send">>]

\* a column destroy that pays the actor one block, as destroy_one does
block_action_destroy_three_income(m, b, ch, p, pos, tool, in) ==
    IF ~(in.gm /\ in.gmUp /\ in.gmDown /\ in.delay) \/ tool = TOOL_GUN
    THEN Rejected(m, b)
    ELSE LET d == plugin_dispatch_block_destroy(ch, in.beh, block_t(pos, mapvxl_get_color(m, pos, Air)))
         IN  IF d.result = PLUGIN_DENY
             THEN [Rejected(m, b) EXCEPT !.denied = TRUE, !.invoked = d.invoked,
                                         !.steps = <<"dispatch">>]
             ELSE LET r == ColumnLoop(m, pos[1], pos[2], U32(pos[3] - 1), U32(pos[3] + 1),
                                      {}, <<>>)
                  IN  [map |-> r.map,
                       blocks |-> IF b[p] < MaxBlocks
                                  THEN [b EXCEPT ![p] = U8(b[p] + 1)] ELSE b,
                       accepted |-> TRUE, denied |-> FALSE, probed |-> r.probed,
                       vacated |-> r.vacated, sent |-> 1, invoked |-> d.invoked, lift |-> {},
                       steps |-> <<"dispatch">> \o ColumnSteps(r.vacated) \o <<"send">>]

block_action_destroy_three(m, b, ch, p, pos, tool, in) ==
    IF ~(in.gm /\ in.gmUp /\ in.gmDown /\ in.delay) \/ tool = TOOL_GUN
    THEN Rejected(m, b)
    ELSE LET d == plugin_dispatch_block_destroy(ch, in.beh, block_t(pos, mapvxl_get_color(m, pos, Air)))
         IN  IF d.result = PLUGIN_DENY
             THEN [Rejected(m, b) EXCEPT !.denied = TRUE, !.invoked = d.invoked,
                                         !.steps = <<"dispatch">>]
             ELSE LET r == ColumnLoop(m, pos[1], pos[2], U32(pos[3] - 1), U32(pos[3] + 1),
                                      {}, <<>>)
                  IN  [map |-> r.map, blocks |-> b,
                       accepted |-> TRUE, denied |-> FALSE, probed |-> r.probed,
                       vacated |-> r.vacated, sent |-> 1, invoked |-> d.invoked, lift |-> {},
                       steps |-> <<"dispatch">> \o ColumnSteps(r.vacated) \o <<"send">>]

handle_block_action(m, b, ch, color, p, kind, pos, tool, dist, in) ==
    IF (dist > MaxDistance /\ tool # TOOL_GUN) \/ ~valid_pos_v3i(pos)
    THEN Rejected(m, b)
    ELSE CASE kind = "Build" -> block_action_build(m, b, ch, color, p, pos, in)
           [] kind = "DestroyOne" -> block_action_destroy_one(m, b, ch, p, pos, tool, in)
           [] kind = "DestroyThree" -> block_action_destroy_three(m, b, ch, p, pos, tool, in)

\* the uint32_t X, Y, Z of a request
Pos32(pos) == <<U32(pos[1]), U32(pos[2]), U32(pos[3])>>

\* the positions a request hands to gamemode_block_checks, as the uint32_t
\* arguments of the call: && stops at the first check that fails, and Z - 1
\* and Z + 1 are computed in uint32_t
GamemodeChecked(kind, pos, tool, dist, in) ==
    IF (dist > MaxDistance /\ tool # TOOL_GUN) \/ ~valid_pos_v3i(pos) THEN {}
    ELSE CASE kind = "Build" -> {Pos32(pos)}
           [] kind = "DestroyOne" -> IF pos[3] < BedrockZ THEN {Pos32(pos)} ELSE {}
           [] kind = "DestroyThree" ->
                {Pos32(pos)}
                \cup (IF in.gm THEN {<<U32(pos[1]), U32(pos[2]), U32(pos[3] + 1)>>} ELSE {})
                \cup (IF in.gm /\ in.gmUp
                      THEN {<<U32(pos[1]), U32(pos[2]), U32(pos[3] - 1)>>} ELSE {})

----------------------------------------------------------------------------
(* player_restock (Plugin.c) *)

api_player_restock(b, g, gs, p) ==
    IF p = NULL THEN [blocks |-> b, grenades |-> g, result |-> PLUGIN_ERROR_NULL_POINTER, sent |-> 0]
    ELSE IF ~gs THEN [blocks |-> b, grenades |-> g, result |-> PLUGIN_ERROR_INVALID_STATE, sent |-> 0]
    ELSE [blocks |-> [b EXCEPT ![p] = MaxBlocks],
          grenades |-> [g EXCEPT ![p] = RestockGrenades],
          result |-> PLUGIN_OK, sent |-> 1]

----------------------------------------------------------------------------
(* The player capabilities (Plugin.c) *)

api_player_set_color(tc, p, color) ==
    IF p = NULL THEN [tool_color |-> tc, result |-> PLUGIN_ERROR_NULL_POINTER]
    ELSE [tool_color |-> [tc EXCEPT ![p] = color], result |-> PLUGIN_OK]

\* sent: send_set_color_to_player to the player, send_set_color to the others
api_player_set_color_broadcast(tc, server, p, color) ==
    IF server = NULL THEN [tool_color |-> tc, result |-> PLUGIN_ERROR_NULL_POINTER, sent |-> 0]
    ELSE IF p = NULL
         THEN [tool_color |-> tc, result |-> PLUGIN_ERROR_NULL_POINTER, sent |-> 0]
         ELSE [tool_color |-> [tc EXCEPT ![p] = color], result |-> PLUGIN_OK, sent |-> 2]

api_player_send_notice(p, message) ==
    IF p = NULL THEN [result |-> PLUGIN_ERROR_NULL_POINTER, sent |-> 0]
    ELSE IF message = NullPtr THEN [result |-> PLUGIN_ERROR_NULL_POINTER, sent |-> 0]
    ELSE [result |-> PLUGIN_OK, sent |-> 1]

\* a player_kill that refuses to kill a dead player
api_player_kill_once(h, a, p) ==
    IF p = NULL THEN [hp |-> h, alive |-> a, result |-> PLUGIN_ERROR_NULL_POINTER]
    ELSE IF ~a[p] THEN [hp |-> h, alive |-> a, result |-> PLUGIN_ERROR_PLAYER_DEAD]
    ELSE [hp |-> [h EXCEPT ![p] = 0], alive |-> [a EXCEPT ![p] = FALSE],
          result |-> PLUGIN_OK]

api_player_kill(h, a, p) ==
    IF p = NULL THEN [hp |-> h, alive |-> a, result |-> PLUGIN_ERROR_NULL_POINTER]
    ELSE [hp |-> [h EXCEPT ![p] = 0], alive |-> [a EXCEPT ![p] = FALSE],
          result |-> PLUGIN_OK]

\* a player_set_hp that takes every uint8_t value
api_player_set_hp_unchecked(h, a, p, newHp) ==
    IF p = NULL THEN [hp |-> h, alive |-> a, result |-> PLUGIN_ERROR_NULL_POINTER]
    ELSE [hp |-> [h EXCEPT ![p] = newHp],
          alive |-> IF newHp = 0 THEN [a EXCEPT ![p] = FALSE] ELSE a,
          result |-> PLUGIN_OK]

api_player_set_hp(h, a, p, newHp) ==
    IF p = NULL THEN [hp |-> h, alive |-> a, result |-> PLUGIN_ERROR_NULL_POINTER]
    ELSE IF newHp > MaxHp THEN [hp |-> h, alive |-> a, result |-> PLUGIN_ERROR_INVALID_HP]
    ELSE [hp |-> [h EXCEPT ![p] = newHp],
          alive |-> IF newHp = 0 THEN [a EXCEPT ![p] = FALSE] ELSE a,
          result |-> PLUGIN_OK]

api_player_set_position(pp, p, v) ==
    IF p = NULL THEN [position |-> pp, result |-> PLUGIN_ERROR_NULL_POINTER]
    ELSE IF \/ v[1] < 0 \/ v[1] >= MAP_X_MAX
            \/ v[2] < 0 \/ v[2] >= MAP_Y_MAX
            \/ v[3] < 0 \/ v[3] >= MAP_Z_MAX
         THEN [position |-> pp, result |-> PLUGIN_ERROR_OUT_OF_RANGE]
         ELSE [position |-> [pp EXCEPT ![p] = v], result |-> PLUGIN_OK]

----------------------------------------------------------------------------
(* Module-originated terrain edits (Plugin.c) *)

ObserverStates == {"STATE_DISCONNECTED", "STATE_STARTING_MAP", "STATE_LOADING_CHUNKS",
                   "STATE_JOINING", "STATE_READY"}

\* server->players, the hash HASH_ITER walks: the players that are connected
Connected(pst) == {p \in Players : pst[p] # "STATE_DISCONNECTED"}

is_past_state_data(st) == st = "STATE_READY"

\* "x < 0 || x >= 512 || y < 0 || y >= 512 || z < 0 || z >= 64"
OutOfBounds(pos) ==
    \/ pos[1] < 0 \/ pos[1] >= MAP_X_MAX
    \/ pos[2] < 0 \/ pos[2] >= MAP_Y_MAX
    \/ pos[3] < 0 \/ pos[3] >= MAP_Z_MAX

\* HASH_ITER over the players: a send to a player past the state data (fails:
\* the players enet_peer_send fails for), a buffer append for a player loading
\* the map
RECURSIVE BroadcastFrom(_, _, _, _, _, _)
BroadcastFrom(todo, pst, buf, node, fails, sentTo) ==
    IF todo = {} THEN [buf |-> buf, sentTo |-> sentTo]
    ELSE LET p == CHOOSE q \in todo : \A o \in todo : q <= o
         IN  IF is_past_state_data(pst[p])
             THEN BroadcastFrom(todo \ {p}, pst, buf, node, fails,
                                IF p \in fails THEN sentTo ELSE sentTo \cup {p})
             ELSE IF pst[p] = "STATE_STARTING_MAP" \/ pst[p] = "STATE_LOADING_CHUNKS"
                  THEN BroadcastFrom(todo \ {p}, pst,
                                     [buf EXCEPT ![p] = Append(buf[p], node)],
                                     node, fails, sentTo)
                  ELSE BroadcastFrom(todo \ {p}, pst, buf, node, fails, sentTo)

ApiRefused(m, buf, code) ==
    [map |-> m, buf |-> buf, result |-> code, sentTo |-> {}, packets |-> 0, probed |-> {},
     accessed |-> FALSE]

\* count is server->protocol.num_players, the counter the guard reads; the loop
\* walks the hash of players whatever the counter says
api_map_set_block(m, count, pst, buf, server, pos, color, fails) ==
    IF server = NULL THEN ApiRefused(m, buf, PLUGIN_ERROR_NULL_POINTER)
    ELSE IF OutOfBounds(pos) THEN ApiRefused(m, buf, PLUGIN_ERROR_MAP_OUT_OF_BOUNDS)
    ELSE LET m1 == mapvxl_set_color(m, pos, color)
         IN  IF count > 0
             THEN LET node == [position |-> pos, color |-> color, type |-> "Build",
                               sender_id |-> SERVER_ID]
                      r == BroadcastFrom(Connected(pst), pst, buf, node, fails, {})
                  IN  [map |-> m1, buf |-> r.buf, result |-> PLUGIN_OK,
                       sentTo |-> r.sentTo, packets |-> 1, probed |-> {}, accessed |-> TRUE,
                       packet |-> [type |-> "Build", player_id |-> SERVER_ID,
                                   position |-> pos]]
             ELSE [map |-> m1, buf |-> buf, result |-> PLUGIN_OK, sentTo |-> {},
                   packets |-> 0, probed |-> {}, accessed |-> TRUE]

\* a map_remove_block that stamps its update with the id of the first player
api_map_remove_block_as_player(m, count, pst, buf, server, pos, fails) ==
    IF server = NULL THEN ApiRefused(m, buf, PLUGIN_ERROR_NULL_POINTER)
    ELSE IF OutOfBounds(pos) THEN ApiRefused(m, buf, PLUGIN_ERROR_MAP_OUT_OF_BOUNDS)
    ELSE LET m1 == mapvxl_set_air(m, pos)
         IN  IF count > 0
             THEN LET node == [position |-> pos, color |-> 0, type |-> "DestroyOne",
                               sender_id |-> 0]
                      r == BroadcastFrom(Connected(pst), pst, buf, node, fails, {})
                  IN  [map |-> m1, buf |-> r.buf, result |-> PLUGIN_OK,
                       sentTo |-> r.sentTo, packets |-> 1, probed |-> {}, accessed |-> TRUE,
                       packet |-> [type |-> "DestroyOne", player_id |-> 0,
                                   position |-> pos]]
             ELSE [map |-> m1, buf |-> buf, result |-> PLUGIN_OK, sentTo |-> {},
                   packets |-> 0, probed |-> {}, accessed |-> TRUE]

api_map_remove_block(m, count, pst, buf, server, pos, fails) ==
    IF server = NULL THEN ApiRefused(m, buf, PLUGIN_ERROR_NULL_POINTER)
    ELSE IF OutOfBounds(pos) THEN ApiRefused(m, buf, PLUGIN_ERROR_MAP_OUT_OF_BOUNDS)
    ELSE LET m1 == mapvxl_set_air(m, pos)
         IN  IF count > 0
             THEN LET node == [position |-> pos, color |-> 0, type |-> "DestroyOne",
                               sender_id |-> SERVER_ID]
                      r == BroadcastFrom(Connected(pst), pst, buf, node, fails, {})
                  IN  [map |-> m1, buf |-> r.buf, result |-> PLUGIN_OK,
                       sentTo |-> r.sentTo, packets |-> 1, probed |-> {}, accessed |-> TRUE,
                       packet |-> [type |-> "DestroyOne", player_id |-> SERVER_ID,
                                   position |-> pos]]
             ELSE [map |-> m1, buf |-> buf, result |-> PLUGIN_OK, sentTo |-> {},
                   packets |-> 0, probed |-> {}, accessed |-> TRUE]

api_init_add_block(m, buf, server, pos, color) ==
    IF server = NULL THEN ApiRefused(m, buf, PLUGIN_ERROR_NULL_POINTER)
    ELSE IF OutOfBounds(pos) THEN ApiRefused(m, buf, PLUGIN_ERROR_MAP_OUT_OF_BOUNDS)
    ELSE [map |-> mapvxl_set_color(m, pos, color), buf |-> buf, result |-> PLUGIN_OK,
          sentTo |-> {}, packets |-> 0, probed |-> {}, accessed |-> TRUE]

\* the map capabilities that read: the call of the voxel store is all the
\* function does with the position
mapvxl_find_top_block(m, x, y, outside) ==
    LET solid == {z \in 0..(MAP_Z_MAX - 1) : IsSolid(m, <<x, y, z>>)}
    IN  IF solid = {} THEN outside
        ELSE CHOOSE z \in solid : \A o \in solid : z <= o

api_map_get_block(m, mapPtr, pos, outside) ==
    IF mapPtr # NULL
    THEN [value |-> mapvxl_get_color(m, pos, outside), accessed |-> TRUE]
    ELSE [value |-> 0, accessed |-> FALSE]

api_map_find_top_block(m, mapPtr, x, y, outside) ==
    IF mapPtr # NULL
    THEN [value |-> mapvxl_find_top_block(m, x, y, outside), accessed |-> TRUE]
    ELSE [value |-> 0 - 1, accessed |-> FALSE]

api_init_set_intel_position(it, server, team_id, pos) ==
    IF server = NULL THEN [intel |-> it, result |-> PLUGIN_ERROR_NULL_POINTER]
    ELSE IF team_id >= 2 THEN [intel |-> it, result |-> PLUGIN_ERROR_INVALID_TEAM]
    ELSE IF OutOfBounds(pos) THEN [intel |-> it, result |-> PLUGIN_ERROR_MAP_OUT_OF_BOUNDS]
    ELSE [intel |-> [it EXCEPT ![team_id] = pos], result |-> PLUGIN_OK]

----------------------------------------------------------------------------
(* The server capabilities (Plugin.c) *)

api_broadcast_message(server, message) ==
    IF server = NULL THEN [result |-> PLUGIN_ERROR_NULL_POINTER, sent |-> 0]
    ELSE IF message = NullPtr THEN [result |-> PLUGIN_ERROR_NULL_POINTER, sent |-> 0]
    ELSE [result |-> PLUGIN_OK, sent |-> 1]

\* strncpy(dst, src, n) into a buffer that spadesx_malloc has just returned:
\* a src shorter than n is copied whole and zero-padded; of a longer one the
\* first n chars are copied and no zero is written, so that the string read
\* back goes on with whatever the buffer held after them (junk; empty when
\* that byte happened to be zero)
strncpy(src, n, junk) == IF Len(src) < n THEN src ELSE SubSeq(src, 1, n) \o junk

\* HASH_FIND_STR(server->cmds_map, command_name, existing_cmd)
HASH_FIND_STR(cm, name) == \E i \in 1..Len(cm) : cm[i].id = name

api_register_command(cm, cl, gpc, server, command_name, handler, perms, junkName, junkId) ==
    IF server = NULL
    THEN [cmds_map |-> cm, cmds_list |-> cl, g_plugin_commands |-> gpc,
          result |-> PLUGIN_ERROR_NULL_POINTER]
    ELSE IF command_name = NullPtr \/ handler = NULL
    THEN [cmds_map |-> cm, cmds_list |-> cl, g_plugin_commands |-> gpc,
          result |-> PLUGIN_ERROR_CMD_INVALID_NAME]
    ELSE IF HASH_FIND_STR(cm, command_name[1])
    THEN [cmds_map |-> cm, cmds_list |-> cl, g_plugin_commands |-> gpc,
          result |-> PLUGIN_ERROR_CMD_ALREADY_REGISTERED]
    ELSE LET plugin_cmd == [command_name |-> strncpy(command_name[1], COMMAND_NAME_SIZE - 1, junkName),
                            handler |-> handler]
             cmd == [id |-> strncpy(command_name[1], COMMAND_ID_SIZE - 1, junkId),
                     execute |-> "plugin_command_wrapper", parse_args |-> 1,
                     permissions |-> perms]
         IN  [cmds_map |-> Append(cm, cmd), cmds_list |-> Append(cl, cmd),
              g_plugin_commands |-> Append(gpc, plugin_cmd), result |-> PLUGIN_OK]

\* "char args_str[1024]"
ARGS_STR_SIZE == 1024

\* strcat(dest, src): src behind dest, whatever room dest has
strcat(dest, src) == dest \o src

\* strncat(dest, src, n): at most n chars of src behind dest.  n is a size_t:
\* a difference below zero has wrapped to a value above every length.
strncat(dest, src, n) ==
    dest \o SubSeq(src, 1, IF n < 0 \/ Len(src) < n THEN Len(src) ELSE n)

\* the loop "for (i = 1; i < argc; i++)" from turn i on, as it runs while
\* every write stays inside args_str: the chars written from args_str[0] on,
\* the terminating zero not counted.  argv[0] of the code is argv[1] here.
RECURSIVE ArgumentLoop(_, _, _)
ArgumentLoop(args_str, argv, i) ==
    IF i > Len(argv) THEN args_str
    ELSE ArgumentLoop(
            strncat(IF i > 2 THEN strcat(args_str, <<" ">>) ELSE args_str, argv[i],
                    ARGS_STR_SIZE - Len(IF i > 2 THEN strcat(args_str, <<" ">>) ELSE args_str) - 1),
            argv, i + 1)

\* what the memory behind an overrun array holds up to its first zero byte:
\* nothing more, or bytes that are not of the arguments
Behind == {<<>>, <<"?">>}

\* the strings args_str can hold when the loop is over.  A join of more than
\* ARGS_STR_SIZE - 1 chars has put its zero behind the array, which is
\* undefined: the writes behind the array go over the loop's own variables,
\* so the ARGS_STR_SIZE chars in the array are followed by some part of the
\* rest of the join and by what the memory holds there.
JoinArguments(argv) ==
    IF Len(ArgumentLoop(<<>>, argv, 2)) < ARGS_STR_SIZE
    THEN {ArgumentLoop(<<>>, argv, 2)}
    ELSE {SubSeq(ArgumentLoop(<<>>, argv, 2), 1, k) \o junk :
            k \in ARGS_STR_SIZE..Len(ArgumentLoop(<<>>, argv, 2)), junk \in Behind}

\* what a call of the wrapper comes to: crashed tells whether the process was
\* killed, called the handler that ran before that or before the wrapper
\* returned (NULL: none), args_str the string it was given
Killed == [crashed |-> TRUE, called |-> NULL, args_str |-> <<>>]
Returned(handler, args_str) == [crashed |-> FALSE, called |-> handler, args_str |-> args_str]

\* cmd->handler(server, arguments.player, args_str).  mapped holds the handlers
\* whose library is loaded.  The handler of a library that went through
\* DLCLOSE is a dangling function pointer: the call is undefined, it kills
\* the process, runs what another library has at that address, or runs the
\* handler when the library is still mapped, and what it runs returns or
\* kills the process in its turn.
CallHandler(handler, args_str, mapped) ==
    IF handler \in mapped THEN {Returned(handler, args_str)}
    ELSE {Killed}
         \cup {Returned(h, args_str) : h \in mapped \cup {handler}}
         \cup {[Returned(h, args_str) EXCEPT !.crashed = TRUE] : h \in mapped \cup {handler}}

\* the call and the return of the wrapper behind an overrun of args_str: the
\* process is killed before the call, or the call is made and the process is
\* killed when the wrapper returns over the overwritten stack, or it returns
AfterOverrun(outcomes) ==
    {Killed} \cup outcomes \cup {[o EXCEPT !.crashed = TRUE] : o \in outcomes}

\* plugin_command_wrapper: the first plugin command whose name is argv[0] gets
\* the arguments behind it, joined with spaces, and its handler is called;
\* without such a command LL_FOREACH ends and nothing is called.
plugin_command_wrapper(gpc, argv, mapped) ==
    LET at == {i \in 1..Len(gpc) : gpc[i].command_name = argv[1]}
    IN  IF at = {} THEN {Returned(NULL, <<>>)}
        ELSE IF Len(ArgumentLoop(<<>>, argv, 2)) < ARGS_STR_SIZE
        THEN UNION {CallHandler(gpc[CHOOSE i \in at : \A j \in at : i <= j].handler,
                                args_str, mapped) : args_str \in JoinArguments(argv)}
        ELSE AfterOverrun(
                UNION {CallHandler(gpc[CHOOSE i \in at : \A j \in at : i <= j].handler,
                                   args_str, mapped) : args_str \in JoinArguments(argv)})

----------------------------------------------------------------------------
(* Error handling (Plugin.c) *)

plugin_result_to_string(result) ==
    CASE result = PLUGIN_OK -> Ptr("Success")
      [] result = PLUGIN_ALLOW -> Ptr("Allow")
      [] result = PLUGIN_DENY -> Ptr("Deny")
      [] result = PLUGIN_ERROR -> Ptr("Generic error")
      [] result = PLUGIN_ERROR_INVALID_PARAM -> Ptr("Invalid parameter")
      [] result = PLUGIN_ERROR_NULL_POINTER -> Ptr("NULL pointer")
      [] result = PLUGIN_ERROR_OUT_OF_RANGE -> Ptr("Value out of range")
      [] result = PLUGIN_ERROR_NOT_FOUND -> Ptr("Not found")
      [] result = PLUGIN_ERROR_PERMISSION_DENIED -> Ptr("Permission denied")
      [] result = PLUGIN_ERROR_INVALID_STATE -> Ptr("Invalid state")
      [] result = PLUGIN_ERROR_PLAYER_NOT_FOUND -> Ptr("Player not found")
      [] result = PLUGIN_ERROR_PLAYER_DEAD -> Ptr("Player is dead")
      [] result = PLUGIN_ERROR_PLAYER_DISCONNECTED -> Ptr("Player disconnected")
      [] result = PLUGIN_ERROR_INVALID_TEAM -> Ptr("Invalid team ID")
      [] result = PLUGIN_ERROR_INVALID_HP -> Ptr("Invalid HP value")
      [] result = PLUGIN_ERROR_MAP_OUT_OF_BOUNDS -> Ptr("Map coordinates out of bounds")
      [] result = PLUGIN_ERROR_MAP_INVALID_COLOR -> Ptr("Invalid color value")
      [] result = PLUGIN_ERROR_MAP_NO_BLOCK -> Ptr("No block at position")
      [] result = PLUGIN_ERROR_CMD_ALREADY_REGISTERED -> Ptr("Command already registered")
      [] result = PLUGIN_ERROR_CMD_INVALID_NAME -> Ptr("Invalid command name")
      [] result = PLUGIN_ERROR_CMD_TOO_MANY -> Ptr("Too many commands registered")
      [] OTHER -> Ptr("Unknown error code")

----------------------------------------------------------------------------
(* The state machine of the block actions *)

Teams == {0, 1}

\* a server that has started: every player at full health at the origin, the
\* intel of both teams at the origin, no plugin command registered, every
\* connected player counted
InitCapabilityState ==
    /\ hp = [p \in Players |-> MaxHp]
    /\ alive = [p \in Players |-> TRUE]
    /\ position = [p \in Players |-> <<0, 0, 0>>]
    /\ intel = [t \in Teams |-> <<0, 0, 0>>]
    /\ cmds_map = <<>>
    /\ cmds_list = <<>>
    /\ g_plugin_commands = <<>>
    /\ num_players = Cardinality(Connected(pstate))

\* the counters a behaviour starts from: empty, one block left, full
InitBlocks == {0, 1, MaxBlocks}

InitMap == [c \in Cells |-> IF c[3] >= GroundZ THEN GroundColor ELSE Air]

\* the chain the block actions run against: two plugins with both block
\* handlers around one with neither
EditChain ==
    << [id |-> 1, hooks |-> {"on_block_destroy", "on_block_place"}, shutdown |-> TRUE],
       [id |-> 2, hooks |-> {"on_tick"}, shutdown |-> TRUE],
       [id |-> 3, hooks |-> {"on_block_destroy", "on_block_place"}, shutdown |-> TRUE] >>

EditRets == {PLUGIN_ALLOW, PLUGIN_DENY}
Quiet == [ret |-> PLUGIN_ALLOW, color |-> Air, moveTo |-> <<>>]
AllQuiet == [i \in 1..3 |-> Quiet]
\* handler behaviours worth telling apart: only the plugins owning the handler vary
EditBehs(recolor) ==
    {[i \in 1..3 |-> IF i = 1 THEN b1 ELSE IF i = 3 THEN b3 ELSE Quiet] :
        b1 \in [ret : EditRets, color : {Air} \cup recolor, moveTo : {<<>>}],
        b3 \in [ret : EditRets, color : {Air} \cup recolor, moveTo : {<<>>}]}

BoolIf(asked) == IF asked THEN BOOLEAN ELSE {TRUE}

NoOp == [op |-> "none"]
NoBuild == [actor |-> NULL]

Init ==
    /\ map = InitMap
    /\ blocks \in [Players -> InitBlocks]
    /\ grenades = [p \in Players |-> RestockGrenades]
    /\ tool_color = [p \in Players |-> GroundColor]
    /\ pstate = [p \in Players |-> "STATE_READY"]
    /\ blockBuffer = [p \in Players |-> <<>>]
    /\ outbox = [p \in Players |-> <<>>]
    /\ g_plugins = EditChain
    /\ g_server = TRUE
    /\ freed = {}
    /\ edits = 0
    /\ pc = "idle"
    /\ last = NoOp
    /\ prevBuild = NoBuild
    /\ InitCapabilityState

\* one request through handle_block_action; the collaborators answer only the
\* questions the code gets to ask (C's && and || evaluate left to right)
HandleBlockAction ==
    /\ pc = "idle"
    /\ edits < MaxEdits
    /\ \E p \in Players, kind \in Kinds, pos \in PosInputs, tool \in Tools, dist \in DistInputs :
        LET early == (dist > MaxDistance /\ tool # TOOL_GUN) \/ ~valid_pos_v3i(pos)
            low == kind # "DestroyOne" \/ pos[3] < BedrockZ
        IN
        \E gm \in BoolIf(~early /\ low) :
        \E gmUp \in BoolIf(~early /\ kind = "DestroyThree" /\ gm) :
        \E gmDown \in BoolIf(~early /\ kind = "DestroyThree" /\ gm /\ gmUp) :
        \E delay \in BoolIf(~early /\ low /\ gm /\ gmUp /\ gmDown
                              /\ (kind = "Build" => blocks[p] > 0)
                              /\ (kind = "DestroyOne" => tool = TOOL_SPADE)) :
        \E weapon \in BoolIf(~early /\ low /\ gm /\ kind = "DestroyOne" /\ tool = TOOL_GUN) :
        \E reserved \in {r \in BOOLEAN : r => (~early /\ kind = "Build" /\ gm
                                                  /\ blocks[p] > 0 /\ delay)} :
            LET in0 == [gm |-> gm, gmUp |-> gmUp, gmDown |-> gmDown, delay |-> delay,
                        weapon |-> weapon, reserved |-> reserved, beh |-> AllQuiet,
                        lift |-> {}]
                passes == handle_block_action(map, blocks, g_plugins, tool_color[p],
                                              p, kind, pos, tool, dist, in0).accepted
            IN
            \E beh \in IF passes
                       THEN EditBehs(IF kind = "Build" THEN {MaxColor} ELSE {})
                       ELSE {AllQuiet} :
            \E lift \in IF kind = "Build" /\ IntelAt(intel, pos) # {}
                             /\ handle_block_action(map, blocks, g_plugins, tool_color[p], p,
                                     kind, pos, tool, dist, [in0 EXCEPT !.beh = beh]).accepted
                          THEN SUBSET IntelAt(intel, pos) ELSE {{}} :
                LET in == [in0 EXCEPT !.beh = beh, !.lift = lift]
                    r == handle_block_action(map, blocks, g_plugins, tool_color[p],
                                             p, kind, pos, tool, dist, in)
                IN  /\ map' = r.map
                    /\ intel' = moveIntelAndTentUp(intel, r.lift)
                    /\ blocks' = r.blocks
                    /\ edits' = IF r.accepted THEN edits + 1 ELSE edits
                    /\ pc' = "done"
                    /\ last' = [op |-> "edit", actor |-> p, kind |-> kind, pos |-> pos,
                                tool |-> tool, dist |-> dist, in |-> in,
                                pre |-> [map |-> map, blocks |-> blocks],
                                accepted |-> r.accepted, denied |-> r.denied,
                                probed |-> r.probed, vacated |-> r.vacated,
                                sent |-> r.sent, invoked |-> r.invoked,
                                lift |-> r.lift, steps |-> r.steps]
                    /\ UNCHANGED <<grenades, tool_color, pstate, blockBuffer, outbox, g_plugins, g_server, freed, prevBuild>>
                    /\ UNCHANGED <<num_players, hp, alive, position, cmds_map, cmds_list, g_plugin_commands>>

ApiPlayerRestock ==
    /\ pc = "idle"
    /\ \E p \in Players \cup {NULL} :
        LET r == api_player_restock(blocks, grenades, g_server, p)
        IN  /\ blocks' = r.blocks
            /\ grenades' = r.grenades
            /\ pc' = "done"
            /\ last' = [op |-> "restock", player |-> p, result |-> r.result, sent |-> r.sent,
                        pre |-> [map |-> map, blocks |-> blocks]]
            /\ UNCHANGED <<map, tool_color, pstate, blockBuffer, outbox, g_plugins, g_server, freed, edits, prevBuild, capVars>>

\* the call has returned: the server goes on to the next packet or tick
Return ==
    /\ pc = "done"
    /\ pc' = "idle"
    /\ last' = NoOp
    /\ prevBuild' = IF last.op = "edit" /\ last.kind = "Build" /\ last.accepted
                    THEN [actor |-> last.actor, pos |-> last.pos,
                          before |-> last.pre.blocks[last.actor]]
                    ELSE NoBuild
    /\ UNCHANGED <<map, blocks, grenades, tool_color, pstate, blockBuffer, outbox, g_plugins, g_server, freed, edits, capVars>>

Next == HandleBlockAction \/ ApiPlayerRestock \/ Return

Spec == Init /\ [][Next]_vars

----------------------------------------------------------------------------
(* The state machine of the module-originated edits *)

SERVER == 1             \* a non-null server pointer
ApiPosInputs == {<<0, 0, 0>>, <<0, 0, BedrockZ - 1>>, <<0, 0, BedrockZ>>, <<0, 0, MAP_Z_MAX - 1>>,
                 <<0, 0, MAP_Z_MAX>>, <<0, 0 - 1, 0>>, <<MAP_X_MAX, 0, 0>>}
ApiObserverStates == {"STATE_DISCONNECTED", "STATE_LOADING_CHUNKS", "STATE_JOINING",
                      "STATE_READY"}

InitApi ==
    /\ map = InitMap
    /\ blocks = [p \in Players |-> MaxBlocks]
    /\ grenades = [p \in Players |-> RestockGrenades]
    /\ tool_color = [p \in Players |-> GroundColor]
    /\ pstate \in [Players -> ApiObserverStates]
    /\ blockBuffer = [p \in Players |-> <<>>]
    /\ outbox = [p \in Players |-> <<>>]
    /\ g_plugins = EditChain
    /\ g_server = TRUE
    /\ freed = {}
    /\ edits = 0
    /\ pc = "idle"
    /\ last = NoOp
    /\ prevBuild = NoBuild
    /\ InitCapabilityState

ApiDone(name, server, pos, color, r) ==
    /\ map' = r.map
    /\ blockBuffer' = r.buf
    /\ outbox' = [p \in Players |-> IF p \in r.sentTo THEN Append(outbox[p], r.packet)
                                     ELSE outbox[p]]
    /\ edits' = edits + 1
    /\ pc' = "done"
    /\ last' = [op |-> name, server |-> server, pos |-> pos, color |-> color,
                pre |-> [map |-> map, blocks |-> blocks, buf |-> blockBuffer],
                result |-> r.result, sentTo |-> r.sentTo, packets |-> r.packets,
                probed |-> r.probed, accessed |-> r.accessed]
    /\ UNCHANGED <<blocks, grenades, tool_color, pstate, g_plugins, g_server, freed, prevBuild, capVars>>

ApiMapSetBlock ==
    /\ pc = "idle"
    /\ edits < MaxEdits
    /\ \E server \in {SERVER, NULL}, pos \in ApiPosInputs, color \in Colors :
       \E fails \in SUBSET {p \in Players : server # NULL /\ ~OutOfBounds(pos)
                                             /\ is_past_state_data(pstate[p])} :
            ApiDone("map_set_block", server, pos, color,
                    api_map_set_block(map, num_players, pstate, blockBuffer, server, pos, color, fails))

ApiMapRemoveBlock ==
    /\ pc = "idle"
    /\ edits < MaxEdits
    /\ \E server \in {SERVER, NULL}, pos \in ApiPosInputs :
       \E fails \in SUBSET {p \in Players : server # NULL /\ ~OutOfBounds(pos)
                                             /\ is_past_state_data(pstate[p])} :
            ApiDone("map_remove_block", server, pos, Air,
                    api_map_remove_block(map, num_players, pstate, blockBuffer, server, pos, fails))

ApiInitAddBlock ==
    /\ pc = "idle"
    /\ edits < MaxEdits
    /\ \E server \in {SERVER, NULL}, pos \in ApiPosInputs, color \in Colors :
            ApiDone("init_add_block", server, pos, color,
                    api_init_add_block(map, blockBuffer, server, pos, color))

NextApi == ApiMapSetBlock \/ ApiMapRemoveBlock \/ ApiInitAddBlock \/ Return

SpecApi == InitApi /\ [][NextApi]_vars

----------------------------------------------------------------------------
(* The state machine of the plugin chain: loading and dispatching *)

AllHooks == VetoEvents \cup NotifyEvents
HookSets == {{}, AllHooks,
             {"on_block_destroy", "on_color_change", "on_tick", "on_player_connect"}}

GoodFile(h) ==
    [opens |-> TRUE, hasInfo |-> TRUE, api_version |-> SPADESX_PLUGIN_API_VERSION,
     alloc |-> TRUE, hasInit |-> TRUE, initResult |-> 0, hasShutdown |-> TRUE, hooks |-> h]

\* the library files plugin_load is given: good ones, and one for each way to fail
Files ==
    {GoodFile(h) : h \in HookSets}
    \cup {[GoodFile(AllHooks) EXCEPT !.opens = FALSE],
          [GoodFile(AllHooks) EXCEPT !.hasInfo = FALSE],
          [GoodFile(AllHooks) EXCEPT !.api_version = SPADESX_PLUGIN_API_VERSION + 1],
          [GoodFile(AllHooks) EXCEPT !.api_version = SPADESX_PLUGIN_API_VERSION - 1],
          [GoodFile(AllHooks) EXCEPT !.alloc = FALSE],
          [GoodFile(AllHooks) EXCEPT !.hasInit = FALSE],
          [GoodFile(AllHooks) EXCEPT !.initResult = 1]}

DispatchRets == {PLUGIN_OK, PLUGIN_ALLOW, PLUGIN_DENY, PLUGIN_ERROR}
ChainIds(ch) == {ch[i].id : i \in 1..Len(ch)}
\* what the handlers of event ev do when called; a plugin without the handler
\* has nothing to vary
DispatchBehs(ch, ev) ==
    LET owners == {ch[i].id : i \in {j \in 1..Len(ch) : ev \in ch[j].hooks}}
    IN  {[id \in ChainIds(ch) |-> IF id \in owners THEN f[id] ELSE Quiet] :
            f \in [owners -> [ret : DispatchRets, color : {Air, MaxColor}, moveTo : {<<>>}]]}

\* the block the block dispatchers are called with, and the hit type of the
\* hits ("0=torso, 1=head, 2=arms, 3=legs, 4=melee")
DispatchPayload == block_t(<<0, 0, 0>>, GroundColor)
HIT_TYPE_HEAD == 1

InitDispatch ==
    /\ map = InitMap
    /\ blocks = [p \in Players |-> MaxBlocks]
    /\ grenades = [p \in Players |-> RestockGrenades]
    /\ tool_color = [p \in Players |-> GroundColor]
    /\ pstate = [p \in Players |-> "STATE_READY"]
    /\ blockBuffer = [p \in Players |-> <<>>]
    /\ outbox = [p \in Players |-> <<>>]
    /\ g_plugins = <<>>
    /\ g_server = TRUE
    /\ freed = {}
    /\ edits = 0
    /\ pc = "idle"
    /\ last = NoOp
    /\ prevBuild = NoBuild
    /\ InitCapabilityState

ChainFrame == UNCHANGED <<map, blocks, grenades, tool_color, pstate, blockBuffer, outbox,
                          g_server, freed, edits, prevBuild, capVars>>

PluginLoad ==
    /\ pc = "idle"
    /\ Len(g_plugins) < MaxChain
    /\ \E file \in Files :
        LET r == plugin_load(g_plugins, file)
        IN  /\ g_plugins' = r.chain
            /\ pc' = "done"
            /\ last' = [op |-> "load", file |-> file, pre |-> [chain |-> g_plugins],
                        result |-> r.result, initCalled |-> r.initCalled]
            /\ ChainFrame

DispatchVetoable ==
    /\ pc = "idle"
    /\ \E ev \in VetoEvents : \E beh \in DispatchBehs(g_plugins, ev) :
        LET r == CASE ev = "on_block_destroy" ->
                        plugin_dispatch_block_destroy(g_plugins, beh, DispatchPayload)
                   [] ev = "on_block_place" ->
                        plugin_dispatch_block_place(g_plugins, beh, DispatchPayload)
                   [] ev = "on_player_hit" ->
                        plugin_dispatch_player_hit(g_plugins, beh, HIT_TYPE_HEAD, TOOL_GUN)
                   [] ev = "on_color_change" ->
                        plugin_dispatch_color_change(g_plugins, beh, GroundColor)
        IN  /\ pc' = "done"
            /\ last' = [op |-> "dispatch", event |-> ev, beh |-> beh,
                        pre |-> [chain |-> g_plugins],
                        result |-> r.result, invoked |-> r.invoked, payload |-> r.payload]
            /\ UNCHANGED g_plugins
            /\ ChainFrame

DispatchNotification ==
    /\ pc = "idle"
    /\ \E ev \in NotifyEvents :
        LET inv == CASE ev = "on_server_init" -> plugin_dispatch_server_init(g_plugins)
                     [] ev = "on_server_shutdown" -> plugin_dispatch_server_shutdown(g_plugins)
                     [] ev = "on_tick" -> plugin_dispatch_tick(g_plugins)
                     [] ev = "on_player_connect" -> plugin_dispatch_player_connect(g_plugins)
                     [] ev = "on_player_disconnect" ->
                          plugin_dispatch_player_disconnect(g_plugins)
                     [] ev = "on_grenade_explode" -> plugin_dispatch_grenade_explode(g_plugins)
        IN  /\ pc' = "done"
            /\ last' = [op |-> "notify", event |-> ev, pre |-> [chain |-> g_plugins],
                        invoked |-> inv]
            /\ UNCHANGED g_plugins
            /\ ChainFrame

NextDispatch == PluginLoad \/ DispatchVetoable \/ DispatchNotification \/ Return

SpecDispatch == InitDispatch /\ [][NextDispatch]_vars

----------------------------------------------------------------------------
(* The state machine of the plugin system's life: scan, dispatch, unload *)

Letters == <<"a", "b", "c", "d", "e">>
PartialHooks == {"on_block_destroy", "on_color_change", "on_tick", "on_player_connect"}

\* the libraries found in the plugins directory: two that load (one of them
\* without a shutdown export) and one for each way plugin_load fails
DirFiles ==
    {GoodFile(AllHooks), [GoodFile(PartialHooks) EXCEPT !.hasShutdown = FALSE],
     [GoodFile(AllHooks) EXCEPT !.opens = FALSE],
     [GoodFile(AllHooks) EXCEPT !.hasInfo = FALSE],
     [GoodFile(AllHooks) EXCEPT !.api_version = SPADESX_PLUGIN_API_VERSION + 1],
     [GoodFile(AllHooks) EXCEPT !.alloc = FALSE],
     [GoodFile(AllHooks) EXCEPT !.hasInit = FALSE],
     [GoodFile(AllHooks) EXCEPT !.initResult = 1]}

\* the i-th entry readdir returns: ".", "..", a library named ".so", another
\* file, or a library with the plugin extension
DirEntries(i) ==
    {[name |-> n, file |-> [GoodFile(AllHooks) EXCEPT !.opens = FALSE]] :
        n \in {<<".">>, <<".", ".">>}}
    \cup {[name |-> n, file |-> GoodFile(AllHooks)] :
            n \in {<<".", "s", "o">>, <<"r", "e", "a", "d", "m", "e">>}}
    \cup {[name |-> <<Letters[i], ".", "s", "o">>, file |-> f] : f \in DirFiles}

RECURSIVE DirsOfLen(_)
DirsOfLen(n) ==
    IF n = 0 THEN {<<>>}
    ELSE {Append(d, e) : d \in DirsOfLen(n - 1),
                         e \in DirEntries(n)}

DistinctNames(d) == \A i, j \in 1..Len(d) : i # j => d[i].name # d[j].name

Dirs ==
    {[opened |-> FALSE, entries |-> <<>>]}
    \cup {[opened |-> TRUE, entries |-> d] :
            d \in {x \in UNION {DirsOfLen(n) : n \in 0..MaxDir} : DistinctNames(x)}}

InitLifecycle ==
    /\ map = InitMap
    /\ blocks = [p \in Players |-> MaxBlocks]
    /\ grenades = [p \in Players |-> RestockGrenades]
    /\ tool_color = [p \in Players |-> GroundColor]
    /\ pstate = [p \in Players |-> "STATE_READY"]
    /\ blockBuffer = [p \in Players |-> <<>>]
    /\ outbox = [p \in Players |-> <<>>]
    /\ g_plugins = <<>>
    /\ g_server = FALSE
    /\ freed = {}
    /\ edits = 0
    /\ pc = "idle"
    /\ last = NoOp
    /\ prevBuild = NoBuild
    /\ InitCapabilityState

LifeFrame == UNCHANGED <<map, blocks, grenades, tool_color, pstate, blockBuffer, outbox,
                         edits, prevBuild, capVars>>

StepIds(steps) == {steps[k][2] : k \in {j \in 1..Len(steps) : steps[j][1] = "free"}}

\* server start: called once, before anything is loaded
PluginSystemInit ==
    /\ pc = "idle"
    /\ ~g_server
    /\ \E dir \in Dirs :
        LET r == plugin_system_init(g_plugins, dir)
        IN  /\ g_plugins' = r.chain
            /\ g_server' = TRUE
            /\ pc' = "done"
            /\ last' = [op |-> "init", dir |-> dir, pre |-> [chain |-> g_plugins],
                        attempted |-> r.attempted]
            /\ UNCHANGED freed
            /\ LifeFrame

PluginUnload ==
    /\ pc = "idle"
    /\ \E plugin \in {g_plugins[i] : i \in 1..Len(g_plugins)} \cup {NoPlugin} :
        LET r == plugin_unload(g_plugins, plugin)
        IN  /\ g_plugins' = r.chain
            /\ freed' = freed \cup StepIds(r.steps)
            /\ pc' = "done"
            /\ last' = [op |-> "unload", plugin |-> plugin, pre |-> [chain |-> g_plugins],
                        steps |-> r.steps]
            /\ UNCHANGED g_server
            /\ LifeFrame

PluginSystemShutdown ==
    /\ pc = "idle"
    /\ g_server
    /\ LET r == plugin_system_shutdown(g_plugins)
       IN  /\ g_plugins' = r.chain
           /\ freed' = freed \cup StepIds(r.steps)
           /\ pc' = "done"
           /\ last' = [op |-> "shutdown", pre |-> [chain |-> g_plugins], steps |-> r.steps]
           /\ UNCHANGED g_server
           /\ LifeFrame

NextLifecycle ==
    \/ PluginSystemInit
    \/ PluginUnload
    \/ PluginSystemShutdown
    \/ DispatchVetoable
    \/ DispatchNotification
    \/ Return

SpecLifecycle == InitLifecycle /\ [][NextLifecycle]_vars

----------------------------------------------------------------------------
(* The state machine of the capability table: what the plugins may call *)

CapPlayers == Players \cup {NULL}
HpInputs == {0, 1, MaxHp, MaxHp + 1, UINT8 - 1}
TeamInputs == {0, 1, 2, UINT8 - 1}
Messages == {NullPtr, Ptr("notice")}
\* player positions: two in the volume, one beyond each axis
VectorInputs == {<<0, 0, 0>>, <<MAP_X_MAX - 1, MAP_Y_MAX - 1, MAP_Z_MAX - 1>>,
                 <<MAP_X_MAX, 0, 0>>, <<0, 0 - 1, 0>>, <<0, 0, MAP_Z_MAX>>}
\* what the voxel store gives back for a position that is not one of its cells
OutsideValues == {0, 0 - 1}

\* command names: a short one, one that fills the name field to the last
\* char, and two longer ones that differ behind it
NameOfLen(n) == [i \in 1..n |-> "a"]
CommandNames == {<<"a">>, NameOfLen(COMMAND_NAME_SIZE - 1),
                 Append(NameOfLen(COMMAND_NAME_SIZE - 1), "x"),
                 Append(NameOfLen(COMMAND_NAME_SIZE - 1), "y")}
Handlers == {1, 2}
Junk == {<<>>, <<"?">>}

\* the values plugin_result_to_string is asked about: the result codes and
\* the integers next to them
ResultInputs ==
    plugin_result_t \cup {c + 1 : c \in plugin_result_t} \cup {c - 1 : c \in plugin_result_t}

\* plugin_load is exported next to plugin_system_init: a plugin may run before
\* or after the server reference is stored
InitCapability ==
    /\ map = InitMap
    /\ blocks = [p \in Players |-> MaxBlocks]
    /\ grenades = [p \in Players |-> RestockGrenades]
    /\ tool_color = [p \in Players |-> GroundColor]
    /\ pstate = [p \in Players |-> "STATE_DISCONNECTED"]
    /\ blockBuffer = [p \in Players |-> <<>>]
    /\ outbox = [p \in Players |-> <<>>]
    /\ g_plugins = EditChain
    /\ g_server \in BOOLEAN
    /\ freed = {}
    /\ edits = 0
    /\ pc = "idle"
    /\ last = NoOp
    /\ prevBuild = NoBuild
    /\ InitCapabilityState

\* what a capability call leaves alone besides the fields it is given
CapFrame == UNCHANGED <<map, blocks, grenades, pstate, blockBuffer, outbox, g_plugins,
                        g_server, freed, prevBuild>>

CapCall == pc = "idle" /\ edits < MaxEdits

CapDone(rec) ==
    /\ edits' = edits + 1
    /\ pc' = "done"
    /\ last' = rec
    /\ CapFrame

CapPre == [hp |-> hp, alive |-> alive, tool_color |-> tool_color, position |-> position,
           intel |-> intel, cmds_map |-> cmds_map, cmds_list |-> cmds_list,
           g_plugin_commands |-> g_plugin_commands, map |-> map, blocks |-> blocks]

ApiPlayerSetColor ==
    /\ CapCall
    /\ \E p \in CapPlayers, color \in Colors :
        LET r == api_player_set_color(tool_color, p, color)
        IN  /\ tool_color' = r.tool_color
            /\ CapDone([op |-> "player_set_color", player |-> p, color |-> color,
                        pre |-> CapPre, result |-> r.result, sent |-> 0])
            /\ UNCHANGED <<num_players, hp, alive, position, intel, cmds_map, cmds_list, g_plugin_commands>>

ApiPlayerSetColorBroadcast ==
    /\ CapCall
    /\ \E server \in {SERVER, NULL}, p \in CapPlayers, color \in Colors :
        LET r == api_player_set_color_broadcast(tool_color, server, p, color)
        IN  /\ tool_color' = r.tool_color
            /\ CapDone([op |-> "player_set_color_broadcast", server |-> server,
                        player |-> p, color |-> color,
                        pre |-> CapPre, result |-> r.result, sent |-> r.sent])
            /\ UNCHANGED <<num_players, hp, alive, position, intel, cmds_map, cmds_list, g_plugin_commands>>

ApiPlayerSendNotice ==
    /\ CapCall
    /\ \E p \in CapPlayers, message \in Messages :
        LET r == api_player_send_notice(p, message)
        IN  /\ CapDone([op |-> "player_send_notice", player |-> p, message |-> message,
                        pre |-> CapPre, result |-> r.result, sent |-> r.sent])
            /\ UNCHANGED <<tool_color, capVars>>

ApiPlayerKill ==
    /\ CapCall
    /\ \E p \in CapPlayers :
        LET r == api_player_kill(hp, alive, p)
        IN  /\ hp' = r.hp
            /\ alive' = r.alive
            /\ CapDone([op |-> "player_kill", player |-> p,
                        pre |-> CapPre, result |-> r.result, sent |-> 0])
            /\ UNCHANGED <<tool_color, num_players, position, intel, cmds_map, cmds_list, g_plugin_commands>>

ApiPlayerSetHp ==
    /\ CapCall
    /\ \E p \in CapPlayers, newHp \in HpInputs :
        LET r == api_player_set_hp(hp, alive, p, newHp)
        IN  /\ hp' = r.hp
            /\ alive' = r.alive
            /\ CapDone([op |-> "player_set_hp", player |-> p, newHp |-> newHp,
                        pre |-> CapPre, result |-> r.result, sent |-> 0])
            /\ UNCHANGED <<tool_color, num_players, position, intel, cmds_map, cmds_list, g_plugin_commands>>

ApiPlayerSetPosition ==
    /\ CapCall
    /\ \E p \in CapPlayers, v \in VectorInputs :
        LET r == api_player_set_position(position, p, v)
        IN  /\ position' = r.position
            /\ CapDone([op |-> "player_set_position", player |-> p, pos |-> v,
                        pre |-> CapPre, result |-> r.result, sent |-> 0])
            /\ UNCHANGED <<tool_color, num_players, hp, alive, intel, cmds_map, cmds_list, g_plugin_commands>>

ApiMapGetBlock ==
    /\ CapCall
    /\ \E mapPtr \in {SERVER, NULL}, pos \in ApiPosInputs :
       \E outside \in IF mapPtr # NULL /\ pos \notin Cells THEN OutsideValues ELSE {0} :
        LET r == api_map_get_block(map, mapPtr, pos, outside)
        IN  /\ CapDone([op |-> "map_get_block", server |-> mapPtr, pos |-> pos,
                        pre |-> CapPre, value |-> r.value, accessed |-> r.accessed,
                        sent |-> 0])
            /\ UNCHANGED <<tool_color, capVars>>

ApiMapFindTopBlock ==
    /\ CapCall
    /\ \E mapPtr \in {SERVER, NULL}, pos \in ApiPosInputs :
       \E outside \in IF mapPtr # NULL /\ <<pos[1], pos[2]>> \notin Columns
                       THEN OutsideValues ELSE {0 - 1} :
        LET r == api_map_find_top_block(map, mapPtr, pos[1], pos[2], outside)
        IN  /\ CapDone([op |-> "map_find_top_block", server |-> mapPtr,
                        pos |-> <<pos[1], pos[2], 0>>,
                        pre |-> CapPre, value |-> r.value, accessed |-> r.accessed,
                        sent |-> 0])
            /\ UNCHANGED <<tool_color, capVars>>

ApiInitSetIntelPosition ==
    /\ CapCall
    /\ \E server \in {SERVER, NULL}, team_id \in TeamInputs, pos \in ApiPosInputs :
        LET r == api_init_set_intel_position(intel, server, team_id, pos)
        IN  /\ intel' = r.intel
            /\ CapDone([op |-> "init_set_intel_position", server |-> server,
                        team_id |-> team_id, pos |-> pos,
                        pre |-> CapPre, result |-> r.result, accessed |-> FALSE, sent |-> 0])
            /\ UNCHANGED <<tool_color, num_players, hp, alive, position, cmds_map, cmds_list, g_plugin_commands>>

ApiBroadcastMessage ==
    /\ CapCall
    /\ \E server \in {SERVER, NULL}, message \in Messages :
        LET r == api_broadcast_message(server, message)
        IN  /\ CapDone([op |-> "broadcast_message", server |-> server, message |-> message,
                        pre |-> CapPre, result |-> r.result, sent |-> r.sent])
            /\ UNCHANGED <<tool_color, capVars>>

ApiRegisterCommand ==
    /\ CapCall
    /\ \E server \in {SERVER, NULL}, name \in {NullPtr} \cup {Ptr(n) : n \in CommandNames},
          handler \in Handlers \cup {NULL} :
       \E junkName \in IF server # NULL /\ name # NullPtr /\ handler # NULL
                           /\ Len(name[1]) >= COMMAND_NAME_SIZE - 1
                        THEN Junk ELSE {<<>>} :
       \E junkId \in IF server # NULL /\ name # NullPtr /\ handler # NULL
                         /\ Len(name[1]) >= COMMAND_ID_SIZE - 1
                      THEN Junk ELSE {<<>>} :
        LET r == api_register_command(cmds_map, cmds_list, g_plugin_commands, server,
                                      name, handler, 0, junkName, junkId)
        IN  /\ cmds_map' = r.cmds_map
            /\ cmds_list' = r.cmds_list
            /\ g_plugin_commands' = r.g_plugin_commands
            /\ CapDone([op |-> "register_command", server |-> server, name |-> name,
                        handler |-> handler, pre |-> CapPre, result |-> r.result,
                        sent |-> 0])
            /\ UNCHANGED <<tool_color, num_players, hp, alive, position, intel>>

PluginResultToString ==
    /\ CapCall
    /\ \E code \in ResultInputs :
        /\ CapDone([op |-> "result_to_string", code |-> code,
                    text |-> plugin_result_to_string(code)])
        /\ UNCHANGED <<tool_color, capVars>>

NextCapability ==
    \/ ApiPlayerSetColor
    \/ ApiPlayerSetColorBroadcast
    \/ ApiPlayerRestock
    \/ ApiPlayerSendNotice
    \/ ApiPlayerKill
    \/ ApiPlayerSetHp
    \/ ApiPlayerSetPosition
    \/ ApiMapGetBlock
    \/ ApiMapSetBlock
    \/ ApiMapRemoveBlock
    \/ ApiMapFindTopBlock
    \/ ApiInitAddBlock
    \/ ApiInitSetIntelPosition
    \/ ApiBroadcastMessage
    \/ ApiRegisterCommand
    \/ PluginResultToString
    \/ Return

SpecCapability == InitCapability /\ [][NextCapability]_vars

----------------------------------------------------------------------------
(* Handlers that use the capability table while a block action waits for
   their answer (Block.c, Plugin.c) *)

\* plugin->init is handed &g_plugin_api and plugin_get_api returns it, so a
\* handler called by plugin_dispatch_block_place can call map_set_block or
\* map_remove_block before it answers.  A call is [fn, pos, color].
NoCall == [fn |-> "none", pos |-> <<0, 0, 0>>, color |-> Air]

\* the state the capabilities work on, as a handler finds and leaves it:
\* between is the sequence of packets the capabilities sent; r is what the
\* capability returned
AfterCall(st, r) ==
    [map |-> r.map, buf |-> r.buf,
     out |-> [p \in Players |-> IF p \in r.sentTo THEN Append(st.out[p], r.packet)
                                ELSE st.out[p]],
     between |-> IF r.packets > 0 THEN Append(st.between, r.packet) ELSE st.between]

HandlerCall(st, pst, call) ==
    IF call.fn = "none" THEN st
    ELSE IF call.fn = "map_set_block"
    THEN AfterCall(st, api_map_set_block(st.map, num_players, pst, st.buf, SERVER, call.pos, call.color, {}))
    ELSE AfterCall(st, api_map_remove_block(st.map, num_players, pst, st.buf, SERVER, call.pos, {}))

\* the handlers plugin_dispatch_block_place calls, in the order it calls them:
\* beh[id] = [ret, color, call], the call made before the handler answers
RECURSIVE CallsOf(_, _, _, _, _)
CallsOf(invoked, beh, pst, st, k) ==
    IF k > Len(invoked) THEN st
    ELSE CallsOf(invoked, beh, pst, HandlerCall(st, pst, beh[invoked[k]].call), k + 1)

\* block_action_build from the answer d of the dispatcher on: st is the state
\* the handlers left, and the block is written to its map; lift is what
\* moveIntelAndTentUp does before the update is sent
BuildAfterDispatch(b, p, pos, d, st, lift) ==
    IF d.result = PLUGIN_DENY
    THEN [map |-> st.map, blocks |-> b, buf |-> st.buf, out |-> st.out,
          validated |-> TRUE, accepted |-> FALSE, denied |-> TRUE,
          committedOn |-> st.map, between |-> st.between, sent |-> 0, invoked |-> d.invoked,
          lift |-> {}]
    ELSE [map |-> mapvxl_set_color(st.map, pos, d.payload.color),
          blocks |-> [b EXCEPT ![p] = U8(b[p] - 1)], buf |-> st.buf, out |-> st.out,
          validated |-> TRUE, accepted |-> TRUE, denied |-> FALSE,
          committedOn |-> st.map, between |-> st.between, sent |-> 1, invoked |-> d.invoked,
          lift |-> lift]

\* block_action_build over the whole state a handler can reach: the guards are
\* evaluated on the map of the call
block_action_build_calling(m, b, buf, out, pst, ch, color, p, pos, in) ==
    IF ~(in.gm /\ b[p] > 0 /\ in.delay /\ is_block_placable(m, pos, in.reserved))
    THEN [map |-> m, blocks |-> b, buf |-> buf, out |-> out, validated |-> FALSE,
          accepted |-> FALSE, denied |-> FALSE, committedOn |-> m, between |-> <<>>,
          sent |-> 0, invoked |-> <<>>, lift |-> {}]
    ELSE BuildAfterDispatch(b, p, pos,
                            plugin_dispatch_block_place(ch, in.beh, block_t(pos, color)),
                            CallsOf(plugin_dispatch_block_place(ch, in.beh,
                                                                block_t(pos, color)).invoked,
                                    in.beh, pst,
                                    [map |-> m, buf |-> buf, out |-> out, between |-> <<>>], 1),
                            in.lift)

----------------------------------------------------------------------------
(* The state machine of the builds whose handlers call back *)

\* the cells the requests and the handlers' calls aim at: the two cells above
\* the ground
CallingPosInputs == {<<0, 0, GroundZ - 1>>, <<0, 0, GroundZ - 2>>}
CallingObserverStates == {"STATE_LOADING_CHUNKS", "STATE_READY"}

HandlerCalls ==
    {NoCall}
    \cup {[fn |-> "map_set_block", pos |-> pos, color |-> c] :
            pos \in CallingPosInputs, c \in {MaxColor}}
    \cup {[fn |-> "map_remove_block", pos |-> pos, color |-> Air] : pos \in CallingPosInputs}

QuietCalling == [ret |-> PLUGIN_ALLOW, color |-> Air, moveTo |-> <<>>, call |-> NoCall]
\* the first plugin's handler varies in all it does, the last one in its answer
CallingBehs ==
    {[i \in 1..3 |-> IF i = 1 THEN b1 ELSE IF i = 3 THEN b3 ELSE QuietCalling] :
        b1 \in [ret : EditRets, color : {Air}, moveTo : {<<>>}, call : HandlerCalls],
        b3 \in [ret : EditRets, color : {Air}, moveTo : {<<>>}, call : {NoCall}]}

InitCalling ==
    /\ map = InitMap
    /\ blocks \in [Players -> {1, MaxBlocks}]
    /\ grenades = [p \in Players |-> RestockGrenades]
    /\ tool_color = [p \in Players |-> GroundColor]
    /\ pstate \in [Players -> CallingObserverStates]
    /\ blockBuffer = [p \in Players |-> <<>>]
    /\ outbox = [p \in Players |-> <<>>]
    /\ g_plugins = EditChain
    /\ g_server = TRUE
    /\ freed = {}
    /\ edits = 0
    /\ pc = "idle"
    /\ last = NoOp
    /\ prevBuild = NoBuild
    /\ InitCapabilityState

CallingDone(p, pos, in, r) ==
    /\ map' = r.map
    /\ blocks' = r.blocks
    /\ blockBuffer' = r.buf
    /\ outbox' = r.out
    /\ edits' = edits + 1
    /\ pc' = "done"
    /\ last' = [op |-> "build", actor |-> p, pos |-> pos, in |-> in,
                pre |-> [map |-> map, blocks |-> blocks, buf |-> blockBuffer],
                validated |-> r.validated, accepted |-> r.accepted,
                denied |-> r.denied, committedOn |-> r.committedOn,
                between |-> r.between, sent |-> r.sent, invoked |-> r.invoked,
                lift |-> r.lift]
    /\ intel' = moveIntelAndTentUp(intel, r.lift)
    /\ UNCHANGED <<grenades, tool_color, pstate, g_plugins, g_server, freed, prevBuild>>
    /\ UNCHANGED <<num_players, hp, alive, position, cmds_map, cmds_list, g_plugin_commands>>

\* one build request, the calls of the handlers it reaches included
BuildWithCallingHandlers ==
    /\ pc = "idle"
    /\ edits < MaxEdits
    /\ \E p \in Players, pos \in CallingPosInputs :
       \E gm \in BOOLEAN :
       \E delay \in BoolIf(gm /\ blocks[p] > 0) :
       \E reserved \in {r \in BOOLEAN : r => (gm /\ blocks[p] > 0 /\ delay)} :
       \E beh \in IF gm /\ blocks[p] > 0 /\ delay /\ is_block_placable(map, pos, reserved)
                  THEN CallingBehs ELSE {[i \in 1..3 |-> QuietCalling]} :
       \E lift \in IF gm /\ blocks[p] > 0 /\ delay /\ is_block_placable(map, pos, reserved)
                      /\ \A i \in {1, 3} : beh[i].ret = PLUGIN_ALLOW
                   THEN SUBSET IntelAt(intel, pos) ELSE {{}} :
            CallingDone(p, pos,
                        [gm |-> gm, delay |-> delay, reserved |-> reserved, beh |-> beh,
                         lift |-> lift],
                        block_action_build_calling(
                            map, blocks, blockBuffer, outbox, pstate, g_plugins, tool_color[p],
                            p, pos,
                            [gm |-> gm, delay |-> delay, reserved |-> reserved, beh |-> beh,
                             lift |-> lift]))

NextCalling == BuildWithCallingHandlers \/ Return

SpecCalling == InitCalling /\ [][NextCalling]_vars

----------------------------------------------------------------------------
(* The state machine of the builds whose handlers rewrite the payload *)

\* where a handler moves the payload to: the first one to another cell above
\* the ground, the second one to a position outside the volume
MoveInputs == [i \in {1, 3} |-> IF i = 1 THEN <<0, 0, 0>> ELSE <<MAP_X_MAX, 0, 0>>]
RewritePosInputs == {<<0, 0, GroundZ - 1>>, <<0, 0, GroundZ - 2>>}

\* both handlers of the chain vary in their answer and in what they write
RewriteBehs ==
    {[i \in 1..3 |-> IF i = 1 THEN b1 ELSE IF i = 3 THEN b3 ELSE Quiet] :
        b1 \in [ret : EditRets, color : {Air} \cup Colors, moveTo : {<<>>, MoveInputs[1]}],
        b3 \in [ret : EditRets, color : {Air} \cup Colors, moveTo : {<<>>, MoveInputs[3]}]}

InitRewrite ==
    /\ map = InitMap
    /\ blocks = [p \in Players |-> MaxBlocks]
    /\ grenades = [p \in Players |-> RestockGrenades]
    /\ tool_color \in [Players -> Colors]
    /\ pstate = [p \in Players |-> "STATE_READY"]
    /\ blockBuffer = [p \in Players |-> <<>>]
    /\ outbox = [p \in Players |-> <<>>]
    /\ g_plugins = EditChain
    /\ g_server = TRUE
    /\ freed = {}
    /\ edits = 0
    /\ pc = "idle"
    /\ last = NoOp
    /\ prevBuild = NoBuild
    /\ hp = [p \in Players |-> MaxHp]
    /\ alive = [p \in Players |-> TRUE]
    /\ position = [p \in Players |-> <<0, 0, 0>>]
    /\ intel = [t \in Teams |-> IF t = 0 THEN <<0, 0, GroundZ - 1>> ELSE <<0, 0, 0>>]
    /\ cmds_map = <<>>
    /\ cmds_list = <<>>
    /\ g_plugin_commands = <<>>
    /\ num_players = Cardinality(Connected(pstate))

RewriteDone(p, pos, in, r) ==
    /\ map' = r.map
    /\ blocks' = r.blocks
    /\ edits' = edits + 1
    /\ pc' = "done"
    /\ last' = [op |-> "edit", actor |-> p, kind |-> "Build", pos |-> pos,
                tool |-> TOOL_BLOCK, dist |-> MaxDistance, in |-> in,
                color |-> tool_color[p],
                pre |-> [map |-> map, blocks |-> blocks],
                accepted |-> r.accepted, denied |-> r.denied,
                probed |-> r.probed, vacated |-> r.vacated,
                sent |-> r.sent, invoked |-> r.invoked, lift |-> r.lift,
                steps |-> r.steps]
    /\ intel' = moveIntelAndTentUp(intel, r.lift)
    /\ UNCHANGED <<grenades, tool_color, pstate, blockBuffer, outbox, g_plugins, g_server, freed, prevBuild>>
    /\ UNCHANGED <<num_players, hp, alive, position, cmds_map, cmds_list, g_plugin_commands>>

\* one build request through handle_block_action
BuildWithRewritingHandlers ==
    /\ pc = "idle"
    /\ edits < MaxEdits
    /\ \E p \in Players, pos \in RewritePosInputs, beh \in RewriteBehs :
       \E lift \in IF blocks[p] > 0 /\ is_block_placable(map, pos, FALSE)
                      /\ \A i \in {1, 3} : beh[i].ret = PLUGIN_ALLOW
                   THEN SUBSET IntelAt(intel, pos) ELSE {{}} :
            RewriteDone(p, pos,
                        [gm |-> TRUE, gmUp |-> TRUE, gmDown |-> TRUE, delay |-> TRUE,
                         weapon |-> TRUE, reserved |-> FALSE, beh |-> beh, lift |-> lift],
                        handle_block_action(
                            map, blocks, g_plugins, tool_color[p], p, "Build", pos,
                            TOOL_BLOCK, MaxDistance,
                            [gm |-> TRUE, gmUp |-> TRUE, gmDown |-> TRUE, delay |-> TRUE,
                             weapon |-> TRUE, reserved |-> FALSE, beh |-> beh,
                             lift |-> lift]))

NextRewrite == BuildWithRewritingHandlers \/ Return

SpecRewrite == InitRewrite /\ [][NextRewrite]_vars

----------------------------------------------------------------------------
(* The state machine of the commands a plugin registers from its init *)

\* the names a plugin's init asks register_command for, in order
InitNames == {<<"a">>, <<"b">>}
InitCalls == {<<>>} \cup {<<n>> : n \in InitNames}
             \cup {<<n1, n2>> : n1 \in InitNames, n2 \in InitNames}

\* the libraries loaded: a good one, one whose init returns non-zero, one
\* without an init export
CommandFiles ==
    {GoodFile(AllHooks), [GoodFile(AllHooks) EXCEPT !.initResult = 1],
     [GoodFile(AllHooks) EXCEPT !.hasInit = FALSE]}

\* a handler is a function of the library being loaded: the model names it by
\* the plugin the library becomes, NoHolder when plugin_load frees the plugin
NoHolder == 0
HandlerOf(ch, file) == IF plugin_load(ch, file).result = 0 THEN MaxId(ch) + 1 ELSE NoHolder

\* plugin->init(server, &g_plugin_api) calling api->register_command for each
\* of the names; registered lists the names that got PLUGIN_OK
RECURSIVE InitRegisters(_, _, _, _, _)
InitRegisters(cm, cl, gpc, names, handler) ==
    IF names = <<>>
    THEN [cmds_map |-> cm, cmds_list |-> cl, g_plugin_commands |-> gpc, registered |-> <<>>]
    ELSE LET r == api_register_command(cm, cl, gpc, SERVER, Ptr(names[1]), handler,
                                       0, <<>>, <<>>)
             rest == InitRegisters(r.cmds_map, r.cmds_list, r.g_plugin_commands,
                                   Tail(names), handler)
         IN  [rest EXCEPT !.registered =
                (IF r.result = PLUGIN_OK THEN <<names[1]>> ELSE <<>>) \o rest.registered]

InitCommands ==
    /\ map = InitMap
    /\ blocks = [p \in Players |-> MaxBlocks]
    /\ grenades = [p \in Players |-> RestockGrenades]
    /\ tool_color = [p \in Players |-> GroundColor]
    /\ pstate = [p \in Players |-> "STATE_READY"]
    /\ blockBuffer = [p \in Players |-> <<>>]
    /\ outbox = [p \in Players |-> <<>>]
    /\ g_plugins = <<>>
    /\ g_server = TRUE
    /\ freed = {}
    /\ edits = 0
    /\ pc = "idle"
    /\ last = NoOp
    /\ prevBuild = NoBuild
    /\ InitCapabilityState

CommandFrame == UNCHANGED <<map, blocks, grenades, tool_color, pstate, blockBuffer, outbox,
                            g_server, edits, prevBuild, num_players, hp, alive, position, intel>>

LoadDone(file, names, handler, r, reg) ==
    /\ g_plugins' = r.chain
    /\ cmds_map' = reg.cmds_map
    /\ cmds_list' = reg.cmds_list
    /\ g_plugin_commands' = reg.g_plugin_commands
    /\ pc' = "done"
    /\ last' = [op |-> "load", file |-> file, names |-> names, handler |-> handler,
                pre |-> [chain |-> g_plugins, cmds_map |-> cmds_map,
                         g_plugin_commands |-> g_plugin_commands],
                result |-> r.result, initCalled |-> r.initCalled,
                registered |-> reg.registered]
    /\ UNCHANGED freed
    /\ CommandFrame

\* plugin_load of a library whose init registers commands; the loads come
\* before the unloads, as in plugin_system_init and plugin_system_shutdown
PluginLoadRegistering ==
    /\ pc = "idle"
    /\ Len(g_plugins) < MaxChain
    /\ freed = {}
    /\ \E file \in CommandFiles, names \in InitCalls :
        LoadDone(file, names, HandlerOf(g_plugins, file),
                 plugin_load(g_plugins, file),
                 InitRegisters(cmds_map, cmds_list, g_plugin_commands,
                               IF plugin_load(g_plugins, file).initCalled THEN names ELSE <<>>,
                               HandlerOf(g_plugins, file)))

PluginUnloadRegistered ==
    /\ pc = "idle"
    /\ \E plugin \in {g_plugins[i] : i \in 1..Len(g_plugins)} :
        LET r == plugin_unload(g_plugins, plugin)
        IN  /\ g_plugins' = r.chain
            /\ freed' = freed \cup StepIds(r.steps)
            /\ pc' = "done"
            /\ last' = [op |-> "unload", plugin |-> plugin,
                        pre |-> [chain |-> g_plugins, cmds_map |-> cmds_map,
                                 g_plugin_commands |-> g_plugin_commands],
                        steps |-> r.steps]
            /\ UNCHANGED <<cmds_map, cmds_list, g_plugin_commands>>
            /\ CommandFrame

\* the arguments behind the command name: none, one, one that fills args_str,
\* one that is cut to fit, two of which the second finds no room, and two
\* whose join does not fit
LongArgument(n) == [k \in 1..n |-> "b"]
RouteArguments ==
    {<<>>, <<<<"x">>>>, <<LongArgument(ARGS_STR_SIZE - 1)>>, <<LongArgument(ARGS_STR_SIZE)>>,
     <<LongArgument(ARGS_STR_SIZE - 2), <<"c">>>>, <<LongArgument(ARGS_STR_SIZE - 1), <<"c">>>>}

\* a player sends a command the server finds in cmds_map: its execute is
\* plugin_command_wrapper, called with the command's name as argv[0].  The
\* libraries of the plugins in the chain are the loaded ones.  A killed
\* process takes no further step.
RouteCommand ==
    /\ pc = "idle"
    /\ \E i \in 1..Len(cmds_map), arguments \in RouteArguments :
       \E o \in plugin_command_wrapper(g_plugin_commands, <<cmds_map[i].id>> \o arguments,
                                       ChainIds(g_plugins)) :
        /\ pc' = IF o.crashed THEN "crashed" ELSE "done"
        /\ last' = [op |-> "route", name |-> cmds_map[i].id, arguments |-> arguments,
                    crashed |-> o.crashed, handler |-> o.called, args_str |-> o.args_str]
        /\ UNCHANGED <<g_plugins, freed, cmds_map, cmds_list, g_plugin_commands>>
        /\ CommandFrame

NextCommands == PluginLoadRegistering \/ PluginUnloadRegistered \/ RouteCommand \/ Return

SpecCommands == InitCommands /\ [][NextCommands]_vars

----------------------------------------------------------------------------
(* The map scanner (MapScanner.c) *)

\* A name is the sequence of its bytes.  A directory is what opendir, readdir
\* and stat make of it: the path it is opened by, whether it opens, the names
\* in the order readdir gives them, the names in it that are regular files,
\* and the regular files above it that a cut path can name.
Dot == 46
Slash == 47
FILEPATH_SIZE == 512    \* "char filepath[512]"
VXL == <<Dot, 118, 120, 108>>
TOML == <<Dot, 116, 111, 109, 108>>

\* strcmp over the bytes: negative, zero or positive
RECURSIVE strcmp_from(_, _, _)
strcmp_from(a, b, i) ==
    IF i > Len(a) /\ i > Len(b) THEN 0
    ELSE IF i > Len(a) THEN 0 - 1
    ELSE IF i > Len(b) THEN 1
    ELSE IF a[i] # b[i] THEN a[i] - b[i]
    ELSE strcmp_from(a, b, i + 1)

strcmp(a, b) == strcmp_from(a, b, 1)

compare_map_names(a, b) == strcmp(a, b)

\* snprintf(filepath, size, "%s/%s%s", directory, filename, extension): the
\* string is cut to size - 1 bytes
snprintf(size, directory, filename, extension) ==
    LET formatted == directory \o <<Slash>> \o filename \o extension
    IN  IF Len(formatted) < size THEN formatted ELSE SubSeq(formatted, 1, size - 1)

\* stat(filepath, &st) == 0 && S_ISREG(st.st_mode), for a path that starts as
\* the path of the directory does: a name in the directory, the directory
\* itself, or a path that ends above it
stat_is_regular(fs, filepath) ==
    IF Len(filepath) > Len(fs.directory) + 1
    THEN SubSeq(filepath, Len(fs.directory) + 2, Len(filepath)) \in fs.regular
    ELSE IF Len(filepath) >= Len(fs.directory) THEN FALSE
    ELSE filepath \in fs.above

file_exists(fs, directory, filename, extension) ==
    stat_is_regular(fs, snprintf(FILEPATH_SIZE, directory, filename, extension))

\* one turn of the readdir loop, on entry i: the names it appends to the list
\* and what it adds to count
ReadEntry(fs, i) ==
    IF fs.order[i][1] = Dot THEN [temp_list |-> <<>>, count |-> 0]
    ELSE IF Len(fs.order[i]) < 5
            \/ strcmp(SubSeq(fs.order[i], Len(fs.order[i]) - 3, Len(fs.order[i])), VXL) # 0
    THEN [temp_list |-> <<>>, count |-> 0]
    ELSE IF ~file_exists(fs, fs.directory, SubSeq(fs.order[i], 1, Len(fs.order[i]) - 4), TOML)
    THEN [temp_list |-> <<>>, count |-> 0]
    ELSE [temp_list |-> <<SubSeq(fs.order[i], 1, Len(fs.order[i]) - 4)>>, count |-> 1]

\* the turns of one part of the directory followed by those of the next part:
\* DL_APPEND puts the names behind the list, count++ works on a uint8_t
ThenRead(first, second) ==
    [temp_list |-> first.temp_list \o second.temp_list,
     count |-> U8(first.count + second.count)]

\* the readdir loop over the entries lo..hi in their order; the range is
\* halved so that the evaluation stays shallow
RECURSIVE ReadMaps(_, _, _)
ReadMaps(fs, lo, hi) ==
    IF lo > hi THEN [temp_list |-> <<>>, count |-> 0]
    ELSE IF lo = hi THEN ReadEntry(fs, lo)
    ELSE ThenRead(ReadMaps(fs, lo, (lo + hi) \div 2),
                  ReadMaps(fs, ((lo + hi) \div 2) + 1, hi))

\* DL_SORT is a stable sort: rank[i] is the place of list[i] in the sorted
\* list, behind the names that compare smaller and the equal ones in front of it
SortedBy(list, rank) ==
    [k \in 1..Len(list) |-> list[CHOOSE i \in 1..Len(list) : rank[i] = k]]

DL_SORT(list) ==
    SortedBy(list,
             [i \in 1..Len(list) |->
                1 + Cardinality({j \in 1..Len(list) :
                                    \/ compare_map_names(list[j], list[i]) < 0
                                    \/ compare_map_names(list[j], list[i]) = 0 /\ j < i})])

\* the part of scan_maps_directory behind the loop; a list without nodes is
\* the NULL head.  The second pass over the directory only logs.
ScanResult(r, alphabetic) ==
    IF r.count = 0 THEN [result |-> <<>>, map_count |-> 0]
    ELSE [result |-> IF alphabetic # 0 THEN DL_SORT(r.temp_list) ELSE r.temp_list,
          map_count |-> r.count]

scan_maps_directory(fs, alphabetic) ==
    IF ~fs.opened THEN [result |-> <<>>, map_count |-> 0]
    ELSE ScanResult(ReadMaps(fs, 1, Len(fs.order)), alphabetic)

----------------------------------------------------------------------------
(* The state machine of the map scanner *)

MaxScan == 4            \* entries of a scanned directory
MaxCut == 2             \* entries of a directory scanned by a long path

\* "a.vxl", "a.toml", "b.vxl", "b.toml", ".vxl", ".h.vxl", ".h.toml", "ab.vxl",
\* "a.tom"
ScanNames ==
    { <<97>> \o VXL, <<97>> \o TOML, <<98>> \o VXL, <<98>> \o TOML, VXL,
      <<Dot, 104>> \o VXL, <<Dot, 104>> \o TOML, <<97, 98>> \o VXL,
      <<97, Dot, 116, 111, 109>> }

\* "maps", and an absolute path of n bytes whose components have 99 bytes
ShortPath == <<109, 97, 112, 115>>
LongPath(n) == [k \in 1..n |-> IF k % 100 = 1 THEN Slash ELSE 100]

\* the paths a directory of n entries is scanned by: a short one; one that
\* leaves the buffer no room for the last byte of "a.toml"; one that fills
\* the buffer, with and without a regular file at the path cut to fit
ScanPaths(n) ==
    {[directory |-> ShortPath, above |-> {}]}
    \cup (IF n > MaxCut THEN {}
          ELSE {[directory |-> LongPath(FILEPATH_SIZE - 7), above |-> {}],
                [directory |-> LongPath(FILEPATH_SIZE), above |-> {}],
                [directory |-> LongPath(FILEPATH_SIZE),
                 above |-> {SubSeq(LongPath(FILEPATH_SIZE), 1, FILEPATH_SIZE - 1)}]})

Range(s) == {s[i] : i \in 1..Len(s)}

\* the directories of n entries that list no name twice
RECURSIVE OrdersOfLen(_)
OrdersOfLen(n) ==
    IF n = 0 THEN {<<>>}
    ELSE UNION {{Append(o, name) : name \in ScanNames \ Range(o)} : o \in OrdersOfLen(n - 1)}

DistinctOrders(max) == UNION {OrdersOfLen(n) : n \in 0..max}

\* the directories of up to max entries; an entry that is no regular file is
\* a directory
SmallDirs(max) ==
    UNION {{[directory |-> at.directory, above |-> at.above, opened |-> TRUE,
             order |-> o, regular |-> reg] :
                reg \in {Range(o), {name \in Range(o) : name # <<97>> \o TOML}},
                at \in ScanPaths(Len(o))} :
           o \in DistinctOrders(max)}

\* "m<ddd>" for the maps of a large directory
BigName(i) == <<109, 48 + (i \div 100), 48 + ((i \div 10) % 10), 48 + (i % 10)>>

\* a directory of n maps, the highest number first, every .vxl with its .toml
BigDir(n) ==
    [directory |-> ShortPath, above |-> {}, opened |-> TRUE,
     order |-> [k \in 1..(2 * n) |->
                    IF k <= n THEN BigName(n + 1 - k) \o VXL ELSE BigName(k - n) \o TOML],
     regular |-> {BigName(i) \o VXL : i \in 1..n} \cup {BigName(i) \o TOML : i \in 1..n}]

NoDir == [directory |-> ShortPath, above |-> {}, opened |-> FALSE, order |-> <<>>, regular |-> {}]

BigDirs(sizes) == {BigDir(n) : n \in sizes}

\* the calls: every small directory with and without sorting, the large ones
\* in directory order
ScanInputs(max) ==
    {[fs |-> fs, alphabetic |-> a] : fs \in SmallDirs(max) \cup {NoDir}, a \in {0, 1}}
    \cup {[fs |-> fs, alphabetic |-> 0] : fs \in BigDirs({UINT8 - 1, UINT8, UINT8 + 1})}

InitScan ==
    /\ map = InitMap
    /\ blocks = [p \in Players |-> MaxBlocks]
    /\ grenades = [p \in Players |-> RestockGrenades]
    /\ tool_color = [p \in Players |-> GroundColor]
    /\ pstate = [p \in Players |-> "STATE_DISCONNECTED"]
    /\ blockBuffer = [p \in Players |-> <<>>]
    /\ outbox = [p \in Players |-> <<>>]
    /\ g_plugins = <<>>
    /\ g_server = FALSE
    /\ freed = {}
    /\ edits = 0
    /\ pc = "idle"
    /\ last = NoOp
    /\ prevBuild = NoBuild
    /\ InitCapabilityState

ScanDone(fs, alphabetic, r) ==
    /\ pc' = "done"
    /\ last' = [op |-> "scan_maps_directory", fs |-> fs, alphabetic |-> alphabetic,
                result |-> r.result, map_count |-> r.map_count]
    /\ UNCHANGED <<map, blocks, grenades, tool_color, pstate, blockBuffer, outbox, g_plugins, g_server, freed, edits, prevBuild, capVars>>

ScanMapsDirectory ==
    /\ pc = "idle"
    /\ \E in \in ScanInputs(MaxScan) :
            ScanDone(in.fs, in.alphabetic, scan_maps_directory(in.fs, in.alphabetic))

NextScan == ScanMapsDirectory \/ Return

SpecScan == InitScan /\ [][NextScan]_vars

----------------------------------------------------------------------------
(* What an observer makes of the block updates it is given *)

\* a buffered update, replayed when the map transfer is over: the node names
\* the cell, the action and the color
ApplyNode(view, node) ==
    IF node.type = "Build" THEN mapvxl_set_color(view, node.position, node.color)
    ELSE mapvxl_set_air(view, node.position)

\* a block-action packet: it names the cell, the action and the sender; a
\* built block takes the color the observer holds for the sender
ApplyPacket(view, packet, held) ==
    IF packet.type = "Build" THEN mapvxl_set_color(view, packet.position, held)
    ELSE mapvxl_set_air(view, packet.position)

RECURSIVE ReplayBuffer(_, _)
ReplayBuffer(view, buf) ==
    IF buf = <<>> THEN view ELSE ReplayBuffer(ApplyNode(view, Head(buf)), Tail(buf))

RECURSIVE ReceivePackets(_, _, _)
ReceivePackets(view, packets, held) ==
    IF packets = <<>> THEN view
    ELSE ReceivePackets(ApplyPacket(view, Head(packets), held), Tail(packets), held)

----------------------------------------------------------------------------
(* Properties *)

IsEdit == last.op = "edit"
Actor == last.actor
TargetWasSolid == IsSolid(last.pre.map, last.pos)
Unchanged == map = last.pre.map /\ blocks = last.pre.blocks
Silent == Unchanged /\ last.probed = {} /\ last.vacated = <<>> /\ last.sent = 0

\* C1: bedrock is never vacated by player edits. Every cell with z >= 62 is
\* solid in every reachable state; no request sets such a cell to air and the
\* structural probe is never seeded at such a cell.
C1_BedrockNeverVacated ==
    /\ \A c \in Cells : c[3] >= BedrockZ => IsSolid(map, c)
    /\ IsEdit => /\ \A c \in last.probed : c[3] < BedrockZ
                 /\ \A i \in 1..Len(last.vacated) : last.vacated[i][3] < BedrockZ

\* a column of three aimed at the first bedrock layer: only the cell above it goes
C1_Witness ==
    /\ IsEdit /\ last.accepted /\ last.kind = "DestroyThree"
    /\ last.pos[3] = BedrockZ
    /\ last.vacated = <<<<last.pos[1], last.pos[2], BedrockZ - 1>>>>
    /\ ~IsSolid(map, <<last.pos[1], last.pos[2], BedrockZ - 1>>)

IsApiEdit == last.op \in {"map_set_block", "map_remove_block", "init_add_block"}

\* C2: no module-originated edit removes or recolors a bedrock cell. Every call
\* of map_set_block, map_remove_block or init_add_block that targets a cell of
\* the bottom layer z = 63 is refused with an error code and leaves the cell as
\* it was.
C2_ModulesCannotEditBedrock ==
    (IsApiEdit /\ last.server # NULL /\ ~OutOfBounds(last.pos)
       /\ last.pos[3] = MAP_Z_MAX - 1)
    => /\ last.result < 0
       /\ map[last.pos] = last.pre.map[last.pos]

\* C3: every counter stays in 0..50 under any interleaving of edit requests and
\* player_restock calls; Build never decrements a counter that is 0 and
\* DestroyOne never increments a counter that is 50.
C3_CounterBound ==
    /\ \A p \in Players : blocks[p] \in 0..MaxBlocks
    /\ (IsEdit /\ last.kind = "Build" /\ last.pre.blocks[Actor] = 0)
       => blocks[Actor] = 0
    /\ (IsEdit /\ last.kind = "DestroyOne" /\ last.pre.blocks[Actor] = MaxBlocks)
       => blocks[Actor] = MaxBlocks
    /\ (last.op = "restock" /\ last.result = PLUGIN_OK) => blocks[last.player] = MaxBlocks

\* an accepted dig by an actor whose counter is full
C3_Witness ==
    /\ IsEdit /\ last.kind = "DestroyOne" /\ last.accepted /\ last.tool = TOOL_SPADE
    /\ TargetWasSolid
    /\ last.pre.blocks[Actor] = MaxBlocks
    /\ blocks[Actor] = MaxBlocks

RoundTrip ==
    /\ IsEdit /\ last.kind = "DestroyOne" /\ last.accepted
    /\ prevBuild.actor = Actor
    /\ prevBuild.pos = last.pos

\* C4: an accepted Build followed by an accepted DestroyOne at the same
\* position by the same actor leaves the counter at its value before the
\* Build when the destroy is done with the dig tool, and at one less when it
\* is done with the ranged weapon.
C4_BuildDestroyRoundTrip ==
    RoundTrip =>
        /\ prevBuild.before \in 1..MaxBlocks
        /\ last.tool \in {TOOL_SPADE, TOOL_GUN}
        /\ last.tool = TOOL_SPADE => blocks[Actor] = prevBuild.before
        /\ last.tool = TOOL_GUN => blocks[Actor] = prevBuild.before - 1

\* the last block is built and dug out again
C4_Witness ==
    /\ RoundTrip
    /\ last.tool = TOOL_SPADE
    /\ prevBuild.before = 1
    /\ last.pre.blocks[Actor] = 0
    /\ blocks[Actor] = 1

NoDeny == \A i \in 1..Len(g_plugins) : last.in.beh[g_plugins[i].id].ret # PLUGIN_DENY

BuildConditions ==
    /\ valid_pos_v3i(last.pos)
    /\ last.dist <= MaxDistance
    /\ last.in.gm /\ last.in.delay
    /\ ~last.in.reserved /\ ~TargetWasSolid

\* C5: a Build by an actor whose counter is 50, with every other build
\* condition holding and no module denying, succeeds, takes exactly one block
\* (counter 49) and makes the target solid; a Build by an actor whose counter
\* is 0 is rejected, the target stays air and the counter stays 0.
C5_BuildAndCounter ==
    (IsEdit /\ last.kind = "Build") =>
        /\ (last.pre.blocks[Actor] = MaxBlocks /\ BuildConditions /\ NoDeny)
           => /\ last.accepted
              /\ blocks = [last.pre.blocks EXCEPT ![Actor] = MaxBlocks - 1]
              /\ IsSolid(map, last.pos)
        /\ last.pre.blocks[Actor] = 0
           => /\ ~last.accepted
              /\ blocks[Actor] = 0
              /\ map = last.pre.map

\* a Build at counter 0 on an air cell is turned down, after another actor's
\* Build at counter 50 went through
C5_Witness ==
    /\ IsEdit /\ last.kind = "Build" /\ ~last.accepted
    /\ last.pre.blocks[Actor] = 0
    /\ BuildConditions
    /\ ~IsSolid(map, last.pos)
    /\ \E q \in Players : blocks[q] = MaxBlocks - 1

\* the conditions of an edit as the specification lists them: one of them fails
FailsCondition ==
    \/ ~valid_pos_v3i(last.pos)
    \/ last.dist > MaxDistance /\ ~(last.kind = "DestroyOne" /\ last.tool = TOOL_GUN)
    \/ ~last.in.gm
    \/ last.kind = "Build"
       /\ (last.pre.blocks[Actor] = 0 \/ ~last.in.delay \/ last.in.reserved \/ TargetWasSolid)
    \/ last.kind = "DestroyOne"
       /\ \/ last.pos[3] >= MAP_Z_MAX - 1
          \/ last.tool \notin {TOOL_SPADE, TOOL_GUN}
          \/ last.tool = TOOL_SPADE /\ ~last.in.delay
          \/ last.tool = TOOL_GUN /\ ~last.in.weapon
    \/ last.kind = "DestroyThree"
       /\ (~last.in.gmUp \/ ~last.in.gmDown \/ ~last.in.delay \/ last.tool = TOOL_GUN)

\* C6: silent rejection. A request of any kind that fails a validator
\* condition (out-of-volume target, distance, gamemode area, resource, rate
\* limit, tool, placeability, bedrock) leaves the terrain and the counter
\* unchanged, runs no structural probe and sends no broadcast.
C6_SilentRejection == (IsEdit /\ FailsCondition) => Silent

SomeHookDenied ==
    \E k \in 1..Len(last.invoked) : last.in.beh[last.invoked[k]].ret = PLUGIN_DENY

\* C7: whenever a block-destroy hook returns deny for a DestroyOne or a
\* DestroyColumnOfThree, the target cell (for the column: all three cells)
\* keeps its state, no structural probe runs, the counter is unchanged and no
\* broadcast is sent.
C7_VetoOnDestroy ==
    (IsEdit /\ last.kind \in {"DestroyOne", "DestroyThree"} /\ SomeHookDenied)
    => Silent

\* a column of three solid cells above bedrock, vetoed by the second hook asked
C7_Witness ==
    /\ IsEdit /\ last.kind = "DestroyThree" /\ last.denied
    /\ last.pos[3] = GroundZ + 1
    /\ \A dz \in {0 - 1, 0, 1} : IsSolid(map, <<last.pos[1], last.pos[2], last.pos[3] + dz>>)
    /\ Len(last.invoked) = 2
    /\ last.in.beh[last.invoked[2]].ret = PLUGIN_DENY

IsDispatch == last.op = "dispatch"

\* A denies, B allows, both have the handler of the dispatched event
ADeniesBAllows(a, b) ==
    /\ Len(last.pre.chain) = 2
    /\ last.event \in last.pre.chain[a].hooks \cap last.pre.chain[b].hooks
    /\ last.beh[last.pre.chain[a].id].ret = PLUGIN_DENY
    /\ last.beh[last.pre.chain[b].id].ret = PLUGIN_ALLOW

WasInvoked(i) == \E k \in 1..Len(last.invoked) : last.invoked[k] = last.pre.chain[i].id

\* plugin_load numbers the plugins as it loads them
LoadedBefore(a, b) == last.pre.chain[a].id < last.pre.chain[b].id

\* C8 as stated: with two plugins loaded in order [A, B], A denying and B
\* allowing, the dispatch of a vetoable event never invokes B's hook.
C8_LoadOrderShortCircuit ==
    IsDispatch => \A a, b \in 1..Len(last.pre.chain) :
        (LoadedBefore(a, b) /\ ADeniesBAllows(a, b)) => ~WasInvoked(b)

\* C8: short-circuit for two modules, in the order of dispatch. With two
\* plugins of which A is the one loaded last (the head of the chain), A
\* denying and B allowing, the dispatch of a vetoable event invokes A's hook
\* only, and returns PLUGIN_DENY.
C8_ChainOrderShortCircuit ==
    IsDispatch => \A a, b \in 1..Len(last.pre.chain) :
        (LoadedBefore(b, a) /\ ADeniesBAllows(a, b))
        => /\ ~WasInvoked(b)
           /\ last.invoked = <<last.pre.chain[a].id>>
           /\ last.result = PLUGIN_DENY

C8_Witness ==
    /\ IsDispatch
    /\ \E a, b \in 1..Len(last.pre.chain) :
          LoadedBefore(b, a) /\ ADeniesBAllows(a, b) /\ WasInvoked(a) /\ ~WasInvoked(b)

\* the plugins of chain ch that have the handler of ev, in chain order
Present(ch, ev) ==
    LET idx == SelectSeq([i \in 1..Len(ch) |-> i], LAMBDA i : ev \in ch[i].hooks)
    IN  [k \in 1..Len(idx) |-> ch[idx[k]].id]

IsPrefix(s, t) == Len(s) <= Len(t) /\ \A k \in 1..Len(s) : s[k] = t[k]

\* C9: the vetoable events are dispatched in chain order, the plugin loaded
\* last first. The dispatcher returns PLUGIN_DENY iff an invoked hook returned
\* exactly PLUGIN_DENY, and then no hook further down the chain is invoked; any
\* other return value lets the chain go on, and without a deny the dispatcher
\* returns PLUGIN_ALLOW after invoking every present hook once.
C9_VetoableDispatchOrder ==
    /\ \A i, j \in 1..Len(g_plugins) : i < j => g_plugins[i].id > g_plugins[j].id
    /\ IsDispatch =>
        LET present == Present(last.pre.chain, last.event)
            inv == last.invoked
        IN  /\ last.event \in VetoEvents
            /\ IsPrefix(inv, present)
            /\ last.result = PLUGIN_DENY
               <=> \E k \in 1..Len(inv) : last.beh[inv[k]].ret = PLUGIN_DENY
            /\ \A k \in 1..(Len(inv) - 1) : last.beh[inv[k]].ret # PLUGIN_DENY
            /\ last.result # PLUGIN_DENY => (last.result = PLUGIN_ALLOW /\ inv = present)
            /\ g_plugins = last.pre.chain

\* three plugins with the handler: an error code, then PLUGIN_OK, then a deny
C9_Witness ==
    /\ IsDispatch
    /\ Len(last.invoked) = 3
    /\ last.beh[last.invoked[1]].ret = PLUGIN_ERROR
    /\ last.beh[last.invoked[2]].ret = PLUGIN_OK
    /\ last.beh[last.invoked[3]].ret = PLUGIN_DENY
    /\ last.result = PLUGIN_DENY

\* C10: the dispatch of a notification-only event invokes the handler of every
\* plugin of the chain that has it exactly once, in chain order, skips the
\* plugins without it and leaves the chain as it was.
C10_NotificationDispatch ==
    last.op = "notify" =>
        /\ last.event \in NotifyEvents
        /\ last.invoked = Present(last.pre.chain, last.event)
        /\ g_plugins = last.pre.chain

\* a chain of three of which the middle plugin lacks the handler
C10_Witness ==
    /\ last.op = "notify"
    /\ Len(last.pre.chain) = 3
    /\ last.event \notin last.pre.chain[2].hooks
    /\ last.invoked = <<last.pre.chain[1].id, last.pre.chain[3].id>>

IsLoad == last.op = "load"

\* C11: the ABI gate. plugin_load of a plugin whose api_version differs from
\* SPADESX_PLUGIN_API_VERSION returns failure, does not call the plugin's init
\* and leaves the chain exactly as it was.
C11_AbiGate ==
    (IsLoad /\ last.file.opens /\ last.file.hasInfo
       /\ last.file.api_version # SPADESX_PLUGIN_API_VERSION)
    => /\ last.result # 0
       /\ ~last.initCalled
       /\ g_plugins = last.pre.chain

\* an otherwise loadable plugin of the next api version, refused with a
\* plugin already in the chain
C11_Witness ==
    /\ IsLoad
    /\ last.file = [GoodFile(AllHooks) EXCEPT !.api_version = SPADESX_PLUGIN_API_VERSION + 1]
    /\ last.result = 0 - 1
    /\ Len(last.pre.chain) = 1 /\ g_plugins = last.pre.chain

Loadable(file) ==
    /\ file.opens /\ file.hasInfo /\ file.api_version = SPADESX_PLUGIN_API_VERSION
    /\ file.alloc /\ file.hasInit /\ file.initResult = 0

\* a candidate module: a directory entry other than "." and ".." whose name is
\* something followed by the extension ".so"
IsCandidate(e) ==
    /\ e.name # <<".">> /\ e.name # <<".", ".">>
    /\ \E k \in 1..Len(e.name) : SubSeq(e.name, k + 1, Len(e.name)) = <<".", "s", "o">>

IndexSeq(n) == [i \in 1..n |-> i]

\* C12: load-failure isolation. After plugin_system_init has scanned the
\* directory, plugin_load was attempted for every candidate, in directory
\* order, whatever happened to the candidates before it, and the chain holds
\* exactly the candidates whose load succeeded, each once (the last loaded at
\* the head); a candidate whose load failed is not in the chain.
C12_LoadFailureIsolation ==
    (last.op = "init" /\ last.dir.opened) =>
        LET dir == last.dir.entries
            cand == SelectSeq(IndexSeq(Len(dir)), LAMBDA i : IsCandidate(dir[i]))
            good == SelectSeq(cand, LAMBDA i : Loadable(dir[i].file))
            n == Len(good)
        IN  /\ last.attempted = cand
            /\ Len(g_plugins) = Len(last.pre.chain) + n
            /\ \A k \in 1..n :
                  /\ g_plugins[k].hooks = dir[good[n + 1 - k]].file.hooks
                  /\ g_plugins[k].shutdown = dir[good[n + 1 - k]].file.hasShutdown
                  /\ g_plugins[k].id = MaxId(last.pre.chain) + n + 1 - k
            /\ SubSeq(g_plugins, n + 1, Len(g_plugins)) = last.pre.chain
            /\ g_server

\* a plugin whose init fails, followed by two that load
C12_Witness ==
    /\ last.op = "init" /\ last.dir.opened
    /\ last.attempted = <<1, 2, 3>>
    /\ last.dir.entries[1].file.initResult # 0
    /\ Len(g_plugins) = 2
    /\ g_plugins[1].hooks = last.dir.entries[3].file.hooks
    /\ g_plugins[2].hooks = last.dir.entries[2].file.hooks
    /\ g_plugins[1].hooks # g_plugins[2].hooks

\* the positions of step <<what, id>> in the steps of the last call
StepsAt(what, id) == {k \in 1..Len(last.steps) : last.steps[k] = <<what, id>>}

\* plugin pl was shut down at most once, exactly once if it has the handler,
\* and before it left the chain
ShutDownThenUnlinked(pl) ==
    /\ Cardinality(StepsAt("shutdown", pl.id)) = (IF pl.shutdown THEN 1 ELSE 0)
    /\ Cardinality(StepsAt("unlink", pl.id)) = 1
    /\ \A i \in StepsAt("shutdown", pl.id), j \in StepsAt("unlink", pl.id) : i < j

\* C13: unload. plugin_unload, called directly or by plugin_system_shutdown,
\* calls the plugin's shutdown handler, if it has one, exactly once and before
\* the plugin leaves the chain; afterwards the plugin is not in the chain, the
\* order of the others is unchanged and no dispatch calls a handler of an
\* unloaded plugin; after plugin_system_shutdown the chain is empty.
C13_Unload ==
    /\ (last.op = "unload" /\ last.plugin # NoPlugin)
       => /\ ShutDownThenUnlinked(last.plugin)
          /\ g_plugins = SelectSeq(last.pre.chain, LAMBDA q : q.id # last.plugin.id)
          /\ Len(g_plugins) = Len(last.pre.chain) - 1
    /\ last.op = "shutdown"
       => /\ g_plugins = <<>>
          /\ \A i \in 1..Len(last.pre.chain) : ShutDownThenUnlinked(last.pre.chain[i])
    /\ freed \cap ChainIds(g_plugins) = {}
    /\ last.op \in {"dispatch", "notify"}
       => \A k \in 1..Len(last.invoked) : last.invoked[k] \notin freed

\* the middle plugin of three, which has a shutdown handler, is unloaded
C13_Witness ==
    /\ last.op = "unload"
    /\ Len(last.pre.chain) = 3
    /\ last.plugin = last.pre.chain[2]
    /\ last.plugin.shutdown
    /\ g_plugins = <<last.pre.chain[1], last.pre.chain[3]>>
    /\ last.plugin.id \in freed

MidTransfer(p) == pstate[p] \in {"STATE_STARTING_MAP", "STATE_LOADING_CHUNKS"}
IsMapEdit == last.op \in {"map_set_block", "map_remove_block"} /\ last.result = PLUGIN_OK

\* the update of the last map edit, as a buffer node
EditNode ==
    [position |-> last.pos, color |-> last.color, sender_id |-> SERVER_ID,
     type |-> IF last.op = "map_set_block" THEN "Build" ELSE "DestroyOne"]

\* observer q was synchronized throughout and got every update p's buffer holds
GotTheSame(p, q) ==
    /\ pstate[q] = "STATE_READY"
    /\ Len(outbox[q]) = Len(blockBuffer[p])
    /\ \A k \in 1..Len(outbox[q]) :
          /\ outbox[q][k].type = blockBuffer[p][k].type
          /\ outbox[q][k].position = blockBuffer[p][k].position

\* C14: deferred delivery is FIFO and state-equivalent. Every map_set_block /
\* map_remove_block made while an observer is mid-transfer is appended to the
\* tail of its action buffer, and replaying the buffer in order gives the same
\* local terrain (solid or air, and color, of every cell) as the one of an
\* observer that was synchronized throughout and got each update at once.
C14_DeferredDelivery ==
    \A p \in Players : MidTransfer(p) =>
        /\ IsMapEdit => blockBuffer[p] = Append(last.pre.buf[p], EditNode)
        /\ \A q \in Players : GotTheSame(p, q) =>
              \E held \in Colors :
                  ReplayBuffer(InitMap, blockBuffer[p])
                    = ReceivePackets(InitMap, outbox[q], held)

\* C15: reserved origin. Every update of a module-originated edit, sent at
\* once or appended to an action buffer, carries the origin id 33, which is no
\* id of a real actor (0..31).
C15_ReservedOrigin ==
    /\ SERVER_ID \notin 0..MaxPlayerId
    /\ Players \subseteq 0..MaxPlayerId
    /\ \A p \in Players :
          /\ \A k \in 1..Len(outbox[p]) : outbox[p][k].player_id = SERVER_ID
          /\ \A k \in 1..Len(blockBuffer[p]) : blockBuffer[p][k].sender_id = SERVER_ID

\* a removal and a placement, each sent to one observer and buffered for the other
C15_Witness ==
    \E p, q \in Players :
        /\ Len(outbox[p]) = 2 /\ Len(blockBuffer[q]) = 2
        /\ outbox[p][1].type # outbox[p][2].type
        /\ blockBuffer[q][1].type # blockBuffer[q][2].type

\* C16: distance cap. Every accepted Build, every accepted column of three and
\* every accepted DestroyOne made with the dig tool has a distance of at most
\* 4 between actor and target; only a DestroyOne made with the ranged weapon
\* is accepted from further away.
C16_DistanceCap ==
    (IsEdit /\ last.accepted /\ last.dist > MaxDistance)
    => (last.kind = "DestroyOne" /\ last.tool = TOOL_GUN)

Min(a, b) == IF a < b THEN a ELSE b

\* C17: on every accepted DestroyOne the actor's counter becomes
\* min(old + 1, 50) when the tool is not the ranged weapon and stays as it was
\* when the tool is the ranged weapon.
C17_Replenishment ==
    (IsEdit /\ last.kind = "DestroyOne" /\ last.accepted) =>
        /\ last.tool # TOOL_GUN
           => blocks[Actor] = Min(last.pre.blocks[Actor] + 1, MaxBlocks)
        /\ last.tool = TOOL_GUN => blocks[Actor] = last.pre.blocks[Actor]

\* an empty counter gets its first block from a dig
C17_Witness ==
    /\ IsEdit /\ last.kind = "DestroyOne" /\ last.accepted
    /\ last.tool = TOOL_SPADE /\ TargetWasSolid
    /\ last.pre.blocks[Actor] = 0 /\ blocks[Actor] = 1

\* the request got as far as the plugins: none of the validator's checks failed
Passes == last.accepted \/ last.denied

\* the request is one handle_block_action hands on: in reach of the actor, or
\* made with the ranged weapon
InReach == last.dist <= MaxDistance \/ last.tool = TOOL_GUN

ToolConditions ==
    \/ last.tool = TOOL_SPADE /\ last.in.delay
    \/ last.tool = TOOL_GUN /\ last.in.weapon

\* C18: DestroyOne legality. A DestroyOne passes the validator iff the target
\* is in the volume and above the bedrock layer z = 63 (every z in 0..62
\* qualifies), the gamemode permits the edit there, and either the dig tool is
\* selected and its rate limit has elapsed or the ranged weapon is selected
\* and the weapon validation passes; with any other tool selected the request
\* is always rejected.
C18_LegalAboveBottomLayer ==
    (IsEdit /\ last.kind = "DestroyOne") =>
        /\ Passes <=> /\ valid_pos_v3i(last.pos)
                      /\ last.pos[3] < MAP_Z_MAX - 1
                      /\ last.in.gm
                      /\ ToolConditions
        /\ last.tool \in {TOOL_BLOCK, TOOL_GRENADE} => (~Passes /\ Silent)

\* C19: the column of three is dig-only. It is accepted only with the dig
\* tool selected, the gamemode permitting the edit at the target and at both
\* vertical neighbours and the rate limit elapsed; with the ranged weapon or
\* any other tool selected it is always rejected.
C19_ColumnIsDigOnly ==
    (IsEdit /\ last.kind = "DestroyThree") =>
        /\ last.accepted => /\ last.tool = TOOL_SPADE
                            /\ last.in.gm /\ last.in.gmUp /\ last.in.gmDown
                            /\ last.in.delay
        /\ last.tool # TOOL_SPADE => (~Passes /\ Silent)

\* z - 1, z, z + 1 as far as they lie in the volume and above bedrock, ascending
ColumnCells(pos) ==
    LET zs == SelectSeq(<<pos[3] - 1, pos[3], pos[3] + 1>>,
                        LAMBDA z : z >= 0 /\ z < MAP_Z_MAX /\ z < BedrockZ)
    IN  [k \in 1..Len(zs) |-> <<pos[1], pos[2], zs[k]>>]

\* C20: the cells an accepted column of three at (x, y, z) sets to air are
\* exactly those of (x, y, z - 1), (x, y, z), (x, y, z + 1) that lie in the
\* volume and above the bedrock boundary, in ascending z; a target at z = 0
\* vacates (x, y, 0) and (x, y, 1).
C20_ColumnCells ==
    (IsEdit /\ last.kind = "DestroyThree" /\ last.accepted) =>
        /\ last.vacated = ColumnCells(last.pos)
        /\ \A k \in 1..Len(last.vacated) : ~IsSolid(map, last.vacated[k])

\* the cells the call that has returned set from solid to air itself
Removed ==
    IF IsEdit
    THEN {c \in {last.vacated[k] : k \in 1..Len(last.vacated)} : IsSolid(last.pre.map, c)}
    ELSE IF last.op = "map_remove_block" /\ last.result = PLUGIN_OK
         THEN {c \in {last.pos} : IsSolid(last.pre.map, c)}
         ELSE {}

\* the 6-connected neighbours of c above the bedrock boundary
ProbeTargets(c) == {n \in NeighbourSet(c) : n[3] < BedrockZ}

\* C21: structural propagation follows every removal. Whenever an operation
\* sets a cell from solid to air (DestroyOne, each cell of the column of
\* three, map_remove_block of a module), the structural probe has run on each
\* of the cell's 6-connected neighbours above the bedrock boundary by the time
\* the operation returns.
C21_ProbeFollowsRemoval == \A c \in Removed : ProbeTargets(c) \subseteq last.probed

\* C24: no cross-actor mutation. Handling an edit request of actor A, accepted
\* or rejected and of any kind, leaves the resource counter of every actor
\* other than A as it was.
C24_NoCrossActorMutation ==
    IsEdit => \A q \in Players \ {Actor} : blocks[q] = last.pre.blocks[q]

\* a dig pays the actor a block while the other actor, who has room for one
\* too, gets none
C24_Witness ==
    /\ IsEdit /\ last.kind = "DestroyOne" /\ last.accepted /\ last.tool = TOOL_SPADE
    /\ blocks[Actor] = last.pre.blocks[Actor] + 1
    /\ \E q \in Players \ {Actor} : blocks[q] < MaxBlocks /\ blocks[q] = last.pre.blocks[q]

\* players join a server whose initialization is over
InitializationOver == Connected(pstate) # {}

\* C25: unchecked terrain mutation is init-only. init_add_block (a terrain
\* write with no broadcast and no buffering) changes the terrain only while
\* the server initializes; a call made after the initialization, with
\* observers connected, does not change the terrain.
C25_InitAddBlockInitOnly ==
    (last.op = "init_add_block" /\ InitializationOver) => map = last.pre.map

\* the capability-table functions that change something
MutatingOps ==
    {"player_set_color", "player_set_color_broadcast", "restock", "player_send_notice",
     "player_kill", "player_set_hp", "player_set_position", "map_set_block",
     "map_remove_block", "init_add_block", "init_set_intel_position",
     "broadcast_message", "register_command"}

\* the result codes the specification lists
ListedCodes ==
    {PLUGIN_OK, PLUGIN_ALLOW, PLUGIN_DENY, PLUGIN_ERROR_NULL_POINTER,
     PLUGIN_ERROR_OUT_OF_RANGE, PLUGIN_ERROR_INVALID_TEAM, PLUGIN_ERROR_INVALID_HP,
     PLUGIN_ERROR_CMD_ALREADY_REGISTERED, PLUGIN_ERROR_CMD_INVALID_NAME}

\* C26 as stated: every mutating capability-table function returns only
\* success, allow, deny, null-argument, out-of-range (PLUGIN_ERROR_OUT_OF_RANGE),
\* invalid-team, invalid-hp, already-registered or invalid-name.
C26_ListedResultCodes == last.op \in MutatingOps => last.result \in ListedCodes

\* the functions that are given a position in the terrain
TerrainOps == {"map_set_block", "map_remove_block", "init_add_block",
               "init_set_intel_position"}

\* C26: closed result-code set. Every mutating capability-table function
\* returns, for every input, one of PLUGIN_OK, PLUGIN_ERROR_NULL_POINTER,
\* PLUGIN_ERROR_OUT_OF_RANGE, PLUGIN_ERROR_INVALID_STATE,
\* PLUGIN_ERROR_INVALID_TEAM, PLUGIN_ERROR_INVALID_HP,
\* PLUGIN_ERROR_MAP_OUT_OF_BOUNDS, PLUGIN_ERROR_CMD_ALREADY_REGISTERED and
\* PLUGIN_ERROR_CMD_INVALID_NAME: a terrain position outside the volume is
\* reported as PLUGIN_ERROR_MAP_OUT_OF_BOUNDS (PLUGIN_ERROR_OUT_OF_RANGE is
\* kept for player_set_position), and player_restock without a stored server
\* reference returns PLUGIN_ERROR_INVALID_STATE.
C26_ClosedResultCodes ==
    last.op \in MutatingOps =>
        /\ last.result \in {PLUGIN_OK, PLUGIN_ERROR_NULL_POINTER, PLUGIN_ERROR_OUT_OF_RANGE,
                            PLUGIN_ERROR_INVALID_STATE, PLUGIN_ERROR_INVALID_TEAM,
                            PLUGIN_ERROR_INVALID_HP, PLUGIN_ERROR_MAP_OUT_OF_BOUNDS,
                            PLUGIN_ERROR_CMD_ALREADY_REGISTERED,
                            PLUGIN_ERROR_CMD_INVALID_NAME}
        /\ last.result = PLUGIN_ERROR_MAP_OUT_OF_BOUNDS
           => (last.op \in TerrainOps /\ OutOfBounds(last.pos))
        /\ last.result = PLUGIN_ERROR_OUT_OF_RANGE
           => (last.op = "player_set_position" /\ OutOfBounds(last.pos))
        /\ last.result = PLUGIN_ERROR_INVALID_STATE
           => (last.op = "restock" /\ ~g_server)

\* a block set outside the volume is reported as out of the map's bounds
C26_Witness ==
    /\ last.op = "map_set_block"
    /\ last.server # NULL /\ OutOfBounds(last.pos)
    /\ last.result = PLUGIN_ERROR_MAP_OUT_OF_BOUNDS
    /\ map = last.pre.map

\* a capability call that was given a position outside the volume
Misplaced ==
    /\ last.op \in {"map_get_block", "map_set_block", "map_remove_block",
                    "map_find_top_block", "init_add_block", "init_set_intel_position"}
    /\ last.server # NULL
    /\ OutOfBounds(last.pos)

\* the call told the module so: an error code, or the value kept for it
ReportedToModule ==
    CASE last.op = "map_get_block" -> last.value = 0
      [] last.op = "map_find_top_block" -> last.value = 0 - 1
      [] OTHER -> last.result < 0

NothingSent ==
    IF last.op \in {"map_set_block", "map_remove_block", "init_add_block"}
    THEN last.sentTo = {} /\ last.packets = 0 /\ blockBuffer = last.pre.buf
    ELSE last.sent = 0

\* C27: capability misuse with positions. Every capability function that
\* takes a map position checks it against the volume bounds before it touches
\* the voxel store or the gamemode state: given a position outside the volume
\* it reports this to the module, does not access the voxel store, changes no
\* state and sends or buffers nothing.
C27_PositionsChecked ==
    Misplaced =>
        /\ ReportedToModule
        /\ ~last.accessed
        /\ map = last.pre.map
        /\ last.op = "init_set_intel_position" => intel = last.pre.intel
        /\ NothingSent

\* a stored command is called by its id, without arguments, while every
\* library is loaded: the handlers plugin_command_wrapper can call
Routes(cmd) ==
    {o.called : o \in plugin_command_wrapper(g_plugin_commands, <<cmd.id>>, Handlers)}

\* C28: duplicate commands are rejected. register_command with a name that is
\* in the server command map returns PLUGIN_ERROR_CMD_ALREADY_REGISTERED and
\* leaves the command map, the command list and the plugin command list as
\* they were; so after any sequence of register_command calls, with names of
\* any length, the ids stored in the command map are pairwise distinct and
\* each stored plugin command routes to the handler it was registered with.
C28_DuplicateCommandsRejected ==
    /\ (/\ last.op = "register_command"
        /\ last.server # NULL /\ last.name # NullPtr /\ last.handler # NULL
        /\ HASH_FIND_STR(last.pre.cmds_map, last.name[1]))
       => /\ last.result = PLUGIN_ERROR_CMD_ALREADY_REGISTERED
          /\ cmds_map = last.pre.cmds_map
          /\ cmds_list = last.pre.cmds_list
          /\ g_plugin_commands = last.pre.g_plugin_commands
    /\ \A i, j \in 1..Len(cmds_map) : i # j => cmds_map[i].id # cmds_map[j].id
    /\ Len(g_plugin_commands) = Len(cmds_map)
    /\ \A i \in 1..Len(cmds_map) : Routes(cmds_map[i]) = {g_plugin_commands[i].handler}

\* C29: plugin_result_to_string returns a message of its own for every
\* enumerator of plugin_result_t, and NULL for every integer that is not a
\* result code.
C29_ResultToString ==
    last.op = "result_to_string" =>
        /\ last.code \in plugin_result_t
           => /\ last.text # NullPtr
              /\ \A other \in plugin_result_t \ {last.code} :
                    plugin_result_to_string(other) # last.text
        /\ last.code \notin plugin_result_t => last.text = NullPtr

\* C30: player_set_hp and player_kill keep the HP consistent. player_set_hp
\* with hp > 100 returns PLUGIN_ERROR_INVALID_HP and leaves hp and alive as
\* they were; with hp <= 100 it returns PLUGIN_OK and sets hp; so the hp of
\* every player stays in 0..100, and a call that sets hp to 0 also marks the
\* player not alive.
C30_HpConsistent ==
    /\ \A p \in Players : hp[p] \in 0..MaxHp
    /\ (last.op = "player_set_hp" /\ last.player # NULL) =>
          /\ last.newHp > MaxHp
             => /\ last.result = PLUGIN_ERROR_INVALID_HP
                /\ hp = last.pre.hp /\ alive = last.pre.alive
          /\ last.newHp <= MaxHp
             => /\ last.result = PLUGIN_OK
                /\ hp = [last.pre.hp EXCEPT ![last.player] = last.newHp]
    /\ (/\ last.op \in {"player_set_hp", "player_kill"}
        /\ last.player # NULL /\ last.result = PLUGIN_OK
        /\ hp[last.player] = 0)
       => ~alive[last.player]

\* a hp of 255 is refused, then the last point of health is taken
C30_Witness ==
    /\ last.op = "player_set_hp" /\ last.player # NULL
    /\ last.newHp = 0 /\ last.pre.hp[last.player] = 1 /\ last.pre.alive[last.player]
    /\ hp[last.player] = 0 /\ ~alive[last.player]

\* C23: single timeline: between the validation of an edit and the end of its
\* broadcast no other edit mutates the terrain or is broadcast, also when the
\* handlers the edit is dispatched to call map_set_block or map_remove_block:
\* a build that passed its validation finds, when its handlers have answered,
\* the terrain it was validated against, and no update of another edit went
\* out in between.
C23_SingleTimeline ==
    (pc = "done" /\ last.op = "build" /\ last.validated) =>
        /\ last.committedOn = last.pre.map
        /\ last.between = <<>>

\* the valid maps of a directory, read off its entries: N for every entry
\* N.vxl that is not hidden, N not empty, with a regular file N.toml
IsScan == pc = "done" /\ last.op = "scan_maps_directory"
ValidMapAt(fs, i) ==
    LET e == fs.order[i]
    IN  /\ e[1] # Dot
        /\ Len(e) > Len(VXL)
        /\ SubSeq(e, Len(e) - Len(VXL) + 1, Len(e)) = VXL
        /\ (SubSeq(e, 1, Len(e) - Len(VXL)) \o TOML) \in fs.regular
ValidIndexes(fs) == {i \in 1..Len(fs.order) : fs.opened /\ ValidMapAt(fs, i)}
MapNameAt(fs, i) == SubSeq(fs.order[i], 1, Len(fs.order[i]) - Len(VXL))
\* the result lists names of valid maps, each further down the directory
\* than the one before it
InDirectoryOrder(fs, result, valid) ==
    \A k \in 1..Len(result) :
        /\ \E i \in valid : MapNameAt(fs, i) = result[k]
        /\ k < Len(result) =>
              (CHOOSE i \in valid : MapNameAt(fs, i) = result[k])
                < (CHOOSE i \in valid : MapNameAt(fs, i) = result[k + 1])

\* C31: scan_maps_directory returns the names of the valid maps, each once and
\* nothing else, ascending by strcmp when alphabetic is non-zero and in
\* directory order otherwise, and NULL exactly when there is no valid map.
C31_ScanResultSet ==
    IsScan =>
        /\ Range(last.result) = {MapNameAt(last.fs, i) : i \in ValidIndexes(last.fs)}
        /\ Len(last.result) = Cardinality(ValidIndexes(last.fs))
        /\ last.alphabetic # 0 =>
                \A k \in 1..(Len(last.result) - 1) :
                    strcmp(last.result[k], last.result[k + 1]) < 0
        /\ last.alphabetic = 0 => InDirectoryOrder(last.fs, last.result, ValidIndexes(last.fs))
        /\ (last.result = <<>>) <=> (ValidIndexes(last.fs) = {})

\* C32: the value written to *map_count is the number of valid maps found and
\* the number of nodes of the returned list, 0 exactly when NULL is returned,
\* also for 256 or more valid maps.
C32_ScanCount ==
    IsScan =>
        /\ last.map_count = Cardinality(ValidIndexes(last.fs))
        /\ last.map_count = Len(last.result)
        /\ (last.map_count = 0) <=> (last.result = <<>>)

\* C33: callers enforce bounds: a request for a target outside the volume
\* consults neither the gamemode area check nor the voxel store nor the
\* structural probe, and for a target inside the volume every position handed
\* to them (the target, z - 1 and z + 1 of a column, the neighbours of a
\* vacated cell) lies inside the volume.
C33_CallersEnforceBounds ==
    (pc = "done" /\ IsEdit) =>
        /\ \A c \in GamemodeChecked(last.kind, last.pos, last.tool, last.dist, last.in) :
                /\ U32Le(c[1], U32(MAP_X_MAX - 1))
                /\ U32Le(c[2], U32(MAP_Y_MAX - 1))
                /\ U32Le(c[3], U32(MAP_Z_MAX - 1))
        /\ \A i \in 1..Len(last.vacated) : valid_pos_v3i(last.vacated[i])
        /\ \A c \in last.probed : valid_pos_v3i(c)

\* the checks the validator makes on a request, by kind
ValidatorPasses ==
    /\ InReach /\ valid_pos_v3i(last.pos)
    /\ last.kind = "Build" =>
          /\ last.in.gm /\ last.pre.blocks[Actor] > 0 /\ last.in.delay
          /\ ~last.in.reserved /\ ~TargetWasSolid
    /\ last.kind = "DestroyOne" =>
          last.pos[3] < BedrockZ /\ last.in.gm /\ ToolConditions
    /\ last.kind = "DestroyThree" =>
          last.in.gm /\ last.in.gmUp /\ last.in.gmDown /\ last.in.delay /\ last.tool # TOOL_GUN

\* the plugins of the chain that have the handler of the request's event
ChainFor(kind) ==
    SelectSeq([i \in 1..Len(g_plugins) |-> g_plugins[i].id],
              LAMBDA id : \E i \in 1..Len(g_plugins) :
                            /\ g_plugins[i].id = id
                            /\ (IF kind = "Build" THEN "on_block_place" ELSE "on_block_destroy")
                                  \in g_plugins[i].hooks)

PipelineAt(what) == {k \in 1..Len(last.steps) : last.steps[k] = what}

\* C34: pipeline order: validator checks, then hook dispatch, then terrain
\* mutation with its cascade, then broadcast. No hook is invoked for a request
\* that fails a validator check; the terrain is mutated only after the whole
\* chain has returned ALLOW; an accepted request is broadcast exactly once,
\* after all of its mutation and cascade, and no other request is broadcast.
C34_PipelineOrder ==
    (pc = "done" /\ IsEdit) =>
        /\ ~ValidatorPasses => (last.invoked = <<>> /\ last.steps = <<>>)
        /\ ValidatorPasses => PipelineAt("dispatch") = {1}
        /\ (PipelineAt("mutate") # {} \/ PipelineAt("probe") # {} \/ map # last.pre.map) =>
              /\ last.invoked = ChainFor(last.kind)
              /\ ~SomeHookDenied
              /\ \A k \in PipelineAt("mutate") \cup PipelineAt("probe") : k > 1 /\ k < Len(last.steps)
        /\ last.accepted <=> (ValidatorPasses /\ ~SomeHookDenied)
        /\ last.accepted => (PipelineAt("send") = {Len(last.steps)} /\ last.sent = 1)
        /\ ~last.accepted => (PipelineAt("send") = {} /\ last.sent = 0 /\ map = last.pre.map)

\* a column of three is taken out after both handlers allowed it, and
\* broadcast behind the three removals and their probes
C34_Witness ==
    /\ pc = "done" /\ IsEdit /\ last.kind = "DestroyThree" /\ last.accepted
    /\ last.invoked = <<1, 3>>
    /\ Len(last.vacated) = 3
    /\ last.steps = <<"dispatch", "mutate", "probe", "mutate", "probe", "mutate", "probe",
                      "send">>
    /\ map # last.pre.map

\* the handlers called for the request that wrote a color into the payload
ColorWriters == {k \in 1..Len(last.invoked) : last.in.beh[last.invoked[k]].color # Air}

\* the color of the payload behind the last handler called: that of the last
\* handler that wrote one, the actor's selected color when none did
PayloadColor ==
    IF ColorWriters = {} THEN last.color
    ELSE last.in.beh[last.invoked[CHOOSE k \in ColorWriters :
                                    \A l \in ColorWriters : l <= k]].color

\* C35: on an accepted Build the target cell takes the color of the payload as
\* the last handler called left it (the actor's selected color when no handler
\* rewrote it); a handler's rewrite of the payload's position has no effect:
\* the cell made solid is the requested one and no other cell changes.
C35_BuildPayloadRewriting ==
    (pc = "done" /\ IsEdit /\ last.kind = "Build" /\ "color" \in DOMAIN last
        /\ last.accepted) =>
        /\ map[last.pos] = PayloadColor
        /\ \A c \in Cells \ {last.pos} : map[c] = last.pre.map[c]

\* the first handler recolors the block and moves the payload to another
\* cell, the second recolors it again: the requested cell takes the second color
C35_Witness ==
    /\ pc = "done" /\ IsEdit /\ last.kind = "Build" /\ "color" \in DOMAIN last
    /\ last.accepted
    /\ last.invoked = <<1, 3>>
    /\ last.in.beh[1].color = MaxColor /\ last.in.beh[1].moveTo = <<0, 0, 0>>
    /\ last.in.beh[3].color = GroundColor /\ last.color = MaxColor
    /\ map[last.pos] = GroundColor
    /\ ~IsSolid(map, <<0, 0, 0>>)

IsModuleEdit ==
    pc = "done" /\ last.op \in {"map_set_block", "map_remove_block"}
                /\ last.result = PLUGIN_OK

\* the observer's buffer is the one before the edit with one node for the
\* edited cell behind it
AppendedFor(p) ==
    /\ Len(blockBuffer[p]) = Len(last.pre.buf[p]) + 1
    /\ SubSeq(blockBuffer[p], 1, Len(last.pre.buf[p])) = last.pre.buf[p]
    /\ blockBuffer[p][Len(blockBuffer[p])].position = last.pos

\* C36: for each module-originated edit (map_set_block, map_remove_block) and
\* each connected observer the edit is either sent at once (observer past the
\* initial state data) or appended to the tail of the observer's action buffer
\* (observer in STATE_STARTING_MAP or STATE_LOADING_CHUNKS), never both, and
\* every connected observer gets one of the two.
C36_DeliveryMode ==
    IsModuleEdit =>
        \A p \in Connected(pstate) :
            \/ /\ is_past_state_data(pstate[p])
               /\ blockBuffer[p] = last.pre.buf[p]
            \/ /\ pstate[p] \in {"STATE_STARTING_MAP", "STATE_LOADING_CHUNKS"}
               /\ p \notin last.sentTo
               /\ AppendedFor(p)

\* C37: a DestroyColumnOfThree request, accepted or rejected and whatever
\* number of cells it vacates, leaves the resource counter of the acting
\* actor (and of every other actor) unchanged.
C37_ColumnLeavesCounter ==
    (pc = "done" /\ IsEdit /\ last.kind = "DestroyThree") =>
        blocks = last.pre.blocks

\* an accepted column of three that vacated three cells for an actor whose
\* counter is below the cap
C37_Witness ==
    /\ pc = "done" /\ IsEdit /\ last.kind = "DestroyThree" /\ last.accepted
    /\ Len(last.vacated) = 3
    /\ \E k \in 1..3 : IsSolid(last.pre.map, last.vacated[k])
    /\ last.pre.blocks[last.actor] < MaxBlocks
    /\ blocks[last.actor] = last.pre.blocks[last.actor]

\* C38: a DestroyOne raises the actor's resource counter only if the target
\* cell was solid just before the request and became air through it; a
\* DestroyOne aimed at a cell that is already air neither raises the counter
\* nor is broadcast.
C38_IncomeNeedsRemoval ==
    (pc = "done" /\ IsEdit /\ last.kind = "DestroyOne") =>
        /\ blocks[last.actor] # last.pre.blocks[last.actor] =>
                /\ valid_pos_v3i(last.pos)
                /\ IsSolid(last.pre.map, last.pos)
                /\ ~IsSolid(map, last.pos)
        /\ (valid_pos_v3i(last.pos) /\ ~IsSolid(last.pre.map, last.pos)) =>
                /\ blocks = last.pre.blocks
                /\ last.sent = 0

\* the positions the request submitted to the on_block_destroy chain: the
\* one payload built from X, Y, Z
SubmittedPositions == IF last.invoked = <<>> THEN {} ELSE {last.pos}

\* C40: every cell set to air directly by an accepted player request (the
\* target of DestroyOne, each of the up to three cells of the column of three)
\* was submitted to the on_block_destroy chain with its own position as
\* payload, and the chain allowed it, before the cell was vacated.
C40_VacatedWereSubmitted ==
    (pc = "done" /\ IsEdit /\ last.kind \in {"DestroyOne", "DestroyThree"}
        /\ last.accepted) =>
        /\ ~last.denied
        /\ \A k \in 1..Len(last.vacated) : last.vacated[k] \in SubmittedPositions

\* the plugin command that stands behind the server command of this name
Routable(name) == \E i \in 1..Len(g_plugin_commands) : g_plugin_commands[i].command_name = name

\* C39: a command registered through register_command is in the server's
\* command map and in the list of plugin commands only while the module that
\* registered it is in the chain: after a plugin_load that fails because init
\* returned non-zero and after the plugin_unload of the module none of its
\* commands is registered or routable to its handler.
C39_CommandsWithModule ==
    /\ \A i \in 1..Len(g_plugin_commands) : g_plugin_commands[i].handler \in ChainIds(g_plugins)
    /\ \A i \in 1..Len(cmds_map) :
            Routable(cmds_map[i].id)
                => \A o \in plugin_command_wrapper(g_plugin_commands, <<cmds_map[i].id>>,
                                                   ChainIds(g_plugins)) :
                        ~o.crashed /\ o.called \in ChainIds(g_plugins)

====
